---- MODULE Spec2Model ----
(***************************************************************************)
(* State-machine model of deepresearch-rs: the research workflow           *)
(* (crates/deepresearch-core: workflow.rs, tasks.rs), the session service  *)
(* facade of the GUI (crates/deepresearch-gui: state.rs) and the           *)
(* capacity gate of the API (crates/deepresearch-api: main.rs).            *)
(***************************************************************************)
EXTENDS Integers, Sequences, FiniteSets, TLC

\* ------------------------------------------------------------------ bounds
\* Orchestrator calls made by direct callers (SpecRun).
MaxCalls == 2
\* start_session / handle_query calls made on the services (Spec, SpecCancel).
MaxStarts == 2
\* event_stream calls made on the session service.
MaxSubs == 1
\* Largest configured admission limit (max_concurrency, session_limit).
MaxConcurrency == 2
\* Task::run calls made on a context outside a session.
MaxTaskRuns == 2
\* Events of a rendered trace, and renderings made.
MaxEvents == 2
MaxRenders == 2
\* Points a Qdrant search hands back to one HybridRetriever::retrieve call.
MaxHits == 2
\* StubRetriever::ingest calls made on one retriever.
MaxIngests == 2
\* Characters of a session id a caller hands to start_session.
MaxIdLen == 4
\* RigOrchestrator::execute calls made on one orchestrator.
MaxExecutes == 2
\* TaskGraph::add_node calls made on one graph, and dependencies of a node.
MaxAdds == 3
MaxDeps == 2
\* DockerSandboxRunner::execute calls made in the process.
MaxExecs == 3
\* run, resume, load and delete calls made one after the other on one storage.
MaxLifeCalls == 3

\* Session ids callers of the session service may supply or that it mints.
SessionIds == {"s1", "s2"}
\* Session ids used on the API's own storage.
ApiSessionIds == {"q1"}
AllIds == SessionIds \cup ApiSessionIds

\* ------------------------------------------------------------ option values
None == <<>>
Some(v) == <<v>>
IsSome(o) == Len(o) = 1
Unwrap(o) == o[1]
UnwrapOr(o, d) == IF Len(o) = 1 THEN o[1] ELSE d

Min(a, b) == IF a <= b THEN a ELSE b
Max(a, b) == IF a >= b THEN a ELSE b
Last(s) == s[Len(s)]

\* ------------------------------------------------------------------ context
\* The keys of the typed context store the workflow reads and writes.
CtxKeys ==
    { "query", "session_id", "session.namespace",
      "trace.enabled", "trace.collector",
      "research.findings", "research.sources",
      "analysis.output",
      "factcheck.confidence", "factcheck.verified_sources", "factcheck.passed",
      "critique.confident", "critique.verdict",
      "final.summary", "final.requires_manual",
      "math.request", "math.result", "math.status", "math.stdout", "math.stderr",
      "math.exit_code", "math.timed_out", "math.duration_ms", "math.outputs",
      "math.script_name", "math.retry_recommended", "math.degradation_note",
      "math.alert_required", "analysis.math_alert_required",
      "analysis.math_retry_recommended" }

\* Context::new: no key is set.
EmptyCtx == [k \in CtxKeys |-> None]

\* Context::set
CtxSet(ctx, key, value) == [ctx EXCEPT ![key] = Some(value)]

\* Context::get / get_sync followed by unwrap_or(default)
CtxGetOr(ctx, key, default) == UnwrapOr(ctx[key], default)

\* ------------------------------------------------------------------ trace
\* A recorder that does not look at trace.enabled.
record_trace_Always(ctx, task_id) ==
    CtxSet(ctx, "trace.collector",
           Append(CtxGetOr(ctx, "trace.collector", <<>>), task_id))

\* record_trace: a no-op unless trace.enabled is true; else the collector
\* (default: empty) gets one more event and is written back.
record_trace(ctx, task_id) ==
    IF ~CtxGetOr(ctx, "trace.enabled", FALSE)
    THEN ctx
    ELSE CtxSet(ctx, "trace.collector",
                Append(CtxGetOr(ctx, "trace.collector", <<>>), task_id))

\* ------------------------------------------------------------- retrieval
\* Scores are kept in hundredths.
StubPlaceholder ==
    [ text |-> "No indexed documents yet; returning placeholder finding.",
      score |-> 0, source |-> None ]
HybridPlaceholder ==
    [ text |-> "No indexed documents matched the query yet; consider ingesting supporting material.",
      score |-> 0, source |-> None ]
DocA == [ text |-> "rust research agents", score |-> 120, source |-> Some("https://a") ]
DocB == [ text |-> "python notebook", score |-> 80, source |-> Some("https://b") ]
DocNoSource == [ text |-> "unsourced note", score |-> 90, source |-> None ]

\* What Retriever::retrieve may return to the research task: the stub built by
\* build_retriever is fresh and empty, so it answers with its placeholder; the
\* hybrid retriever answers with hits, its placeholder, or an error.
RetrieveOutcomes(retriever) ==
    IF retriever = "stub"
    THEN { [ok |-> TRUE, docs |-> <<StubPlaceholder>>] }
    ELSE { [ok |-> FALSE, docs |-> <<>>],
           [ok |-> TRUE, docs |-> <<HybridPlaceholder>>],
           [ok |-> TRUE, docs |-> <<DocA, DocB>>],
           [ok |-> TRUE, docs |-> <<DocNoSource>>] }

\* text.trim().is_empty()
IsBlank(text) == text \in {"", " "}

\* ResearchTask::run_retrieval
run_retrieval(outcome, query) ==
    IF outcome.ok
    THEN IF \A i \in 1..Len(outcome.docs) :
               outcome.docs[i].score <= 0 \/ IsBlank(outcome.docs[i].text)
         THEN << [ text |-> "Automated placeholder insight. Additional manual review recommended.",
                   score |-> 10, source |-> Some("stub://memory") ] >>
         ELSE outcome.docs
    ELSE << [ text |-> "Unable to query memory", score |-> 0,
              source |-> Some("stub://error") ] >>

\* iter().map(f).collect()
RECURSIVE SeqMap(_, _)
SeqMap(s, field) ==
    IF s = <<>> THEN <<>> ELSE <<Head(s)[field]>> \o SeqMap(Tail(s), field)

\* iter().filter_map(|doc| doc.source.clone()).collect()
RECURSIVE SourcesOf(_)
SourcesOf(docs) ==
    IF docs = <<>> THEN <<>>
    ELSE (IF IsSome(Head(docs).source) THEN <<Unwrap(Head(docs).source)>> ELSE <<>>)
         \o SourcesOf(Tail(docs))

\* ------------------------------------------------------------------ tasks
TaskResearcher == "researcher"
TaskAnalyst == "analyst"
TaskFactCheck == "fact_check"
TaskCritic == "critic"
TaskFinalize == "finalize"
TaskManualReview == "manual_review"
TaskMathTool == "math_tool"

\* ResearchTask::run
ResearchRun(ctx, outcome) ==
    LET query == CtxGetOr(ctx, "query", "general market outlook")
        documents == run_retrieval(outcome, query)
        c1 == CtxSet(ctx, "research.findings", SeqMap(documents, "text"))
        c2 == CtxSet(c1, "research.sources", SourcesOf(documents))
    IN  record_trace(c2, TaskResearcher)

default_sources == << "https://example.com/industry-overview",
                      "https://example.com/market-trends" >>

\* AnalystOutput::default
AnalystOutputDefault == [ summary |-> [kind |-> "empty", findings |-> <<>>, nsources |-> 0],
                          highlight |-> "", sources |-> <<>> ]

\* AnalystTask::run
AnalystRun(ctx) ==
    LET findings == CtxGetOr(ctx, "research.findings", <<>>)
        sources == CtxGetOr(ctx, "research.sources", default_sources)
        summary == IF findings = <<>>
                   THEN [kind |-> "none", findings |-> <<>>, nsources |-> 0]
                   ELSE [kind |-> "top", findings |-> findings, nsources |-> Len(sources)]
        structured == [ summary |-> summary,
                        highlight |-> IF findings = <<>> THEN "" ELSE findings[1],
                        sources |-> sources ]
    IN  record_trace(CtxSet(ctx, "analysis.output", structured), TaskAnalyst)

\* Number of '.' characters of a finding text.
Dots(text) ==
    CASE text = "Automated placeholder insight. Additional manual review recommended." -> 2
      [] text = "No indexed documents yet; returning placeholder finding." -> 1
      [] text = "No indexed documents matched the query yet; consider ingesting supporting material." -> 1
      [] OTHER -> 0

RECURSIVE SumDots(_)
SumDots(findings) ==
    IF findings = <<>> THEN 0 ELSE Dots(Head(findings)) + SumDots(Tail(findings))

\* summary.split('.').count(): one more than the number of '.' in the text.
\* "Top insights: {}. Confidence supported by {} sources." has two of its own;
\* the "No findings available; ..." text and the empty default have none.
SplitCount(summary) ==
    IF summary.kind = "top" THEN 3 + SumDots(summary.findings) ELSE 1

\* FactCheckTask::run. confidence = min(1, 0.5 + 0.5 * verified / |sources|),
\* kept in hundredths; passed compares the exact fraction with min_confidence.
FactCheckRun(ctx, settings) ==
    LET analysis == CtxGetOr(ctx, "analysis.output", AnalystOutputDefault)
        sources == analysis.sources
        nverified == Min(settings.verification_count, Len(sources))
        verified_sources == SubSeq(sources, 1, nverified)
        confidence == IF sources = <<>> THEN 50
                      ELSE Min(100, 50 + (50 * nverified) \div Len(sources))
        passed == IF sources = <<>>
                  THEN 50 >= settings.min_confidence
                  ELSE 50 * (Len(sources) + nverified) >= settings.min_confidence * Len(sources)
        c1 == CtxSet(ctx, "factcheck.confidence", confidence)
        c2 == CtxSet(c1, "factcheck.verified_sources", verified_sources)
        c3 == CtxSet(c2, "factcheck.passed", passed)
    IN  record_trace(c3, TaskFactCheck)

VerdictPass == "Analysis passes automated checks"
VerdictFail == "Insufficient evidence; requires manual review"

\* A critic that leaves no trace event.
CriticRun_NoTrace(ctx) ==
    LET analysis == CtxGetOr(ctx, "analysis.output", AnalystOutputDefault)
        fact_passed == CtxGetOr(ctx, "factcheck.passed", TRUE)
        passes_confidence == /\ fact_passed
                             /\ SplitCount(analysis.summary) >= 2
                             /\ analysis.sources # <<>>
        c1 == CtxSet(ctx, "critique.confident", passes_confidence)
    IN  CtxSet(c1, "critique.verdict",
               IF passes_confidence THEN VerdictPass ELSE VerdictFail)

\* CriticTask::run
CriticRun(ctx) ==
    LET analysis == CtxGetOr(ctx, "analysis.output", AnalystOutputDefault)
        fact_passed == CtxGetOr(ctx, "factcheck.passed", TRUE)
        passes_confidence == /\ fact_passed
                             /\ SplitCount(analysis.summary) >= 2
                             /\ analysis.sources # <<>>
        c1 == CtxSet(ctx, "critique.confident", passes_confidence)
        c2 == CtxSet(c1, "critique.verdict",
                     IF passes_confidence THEN VerdictPass ELSE VerdictFail)
    IN  record_trace(c2, TaskCritic)

\* FinalizeTask::run
FinalizeRun(ctx) ==
    LET analysis == CtxGetOr(ctx, "analysis.output", AnalystOutputDefault)
        summary == [ by |-> "finalizer",
                     verdict |-> CtxGetOr(ctx, "critique.verdict", "No verdict recorded"),
                     analysis |-> analysis,
                     confident |-> CtxGetOr(ctx, "critique.confident", FALSE),
                     fact_confidence |-> CtxGetOr(ctx, "factcheck.confidence", 0),
                     verified |-> CtxGetOr(ctx, "factcheck.verified_sources", <<>>) ]
        c1 == CtxSet(ctx, "final.summary", summary)
        c2 == CtxSet(c1, "final.requires_manual", FALSE)
    IN  record_trace(c2, TaskFinalize)

ManualSummary ==
    [ by |-> "manual_review",
      verdict |-> "Automated checks flagged low confidence. Please perform manual verification.",
      analysis |-> AnalystOutputDefault, confident |-> FALSE,
      fact_confidence |-> 0, verified |-> <<>> ]

\* A manual review that flags the session but writes no summary.
ManualReviewRun_NoSummary(ctx) ==
    record_trace(CtxSet(ctx, "final.requires_manual", TRUE), TaskManualReview)

\* ManualReviewTask::run
ManualReviewRun(ctx) ==
    LET c1 == CtxSet(ctx, "final.summary", ManualSummary)
        c2 == CtxSet(c1, "final.requires_manual", TRUE)
    IN  record_trace(c2, TaskManualReview)

\* Task::run of the node `task`; `settings` are the fact-check settings of the
\* call and `outcome` what the retriever answers.
TaskRun(task, ctx, settings, outcome) ==
    CASE task = TaskResearcher -> ResearchRun(ctx, outcome)
      [] task = TaskAnalyst -> AnalystRun(ctx)
      [] task = TaskFactCheck -> FactCheckRun(ctx, settings)
      [] task = TaskCritic -> CriticRun(ctx)
      [] task = TaskFinalize -> FinalizeRun(ctx)
      [] OTHER -> ManualReviewRun(ctx)

\* The NextAction each task returns: End by the two terminal tasks,
\* ContinueAndExecute by all others.
TaskNextAction(task) ==
    IF task \in {TaskFinalize, TaskManualReview} THEN "End" ELSE "ContinueAndExecute"

\* ------------------------------------------------------------ numeric tool
\* Exit codes a finished container process may have: Option<i32>, None when
\* the process was ended by a signal.
ExitCodes == { None, Some(0), Some(1) }

\* SandboxResult: stdout, the outputs and the duration are left out.
SandboxResultOf(timed_out, exit_code, stderr) ==
    [ exit_code |-> exit_code, timed_out |-> timed_out, stderr |-> stderr ]

\* execute_internal: let success = !timed_out && exit_code.unwrap_or(-1) == 0
success(timed_out, exit_code) == ~timed_out /\ UnwrapOr(exit_code, -1) = 0

\* execute_internal: the status label of the telemetry records.
status_label(timed_out, exit_code) ==
    IF timed_out THEN "timeout"
    ELSE IF success(timed_out, exit_code) THEN "success" ELSE "failure"

\* MathToolResult::default
MathToolResultDefault ==
    [ status |-> "skipped", exit_code |-> None, timed_out |-> FALSE, stderr |-> "" ]

\* A conversion that takes a missing exit code for a clean exit.
from_sandbox_NoneIsSuccess(result) ==
    [ status |-> IF result.timed_out THEN "timeout"
                 ELSE IF UnwrapOr(result.exit_code, 0) = 0 THEN "success"
                 ELSE "failure",
      exit_code |-> result.exit_code, timed_out |-> result.timed_out,
      stderr |-> result.stderr ]

\* MathToolResult::from_sandbox
from_sandbox(result) ==
    [ status |-> IF result.timed_out THEN "timeout"
                 ELSE IF UnwrapOr(result.exit_code, -1) = 0 THEN "success"
                 ELSE "failure",
      exit_code |-> result.exit_code, timed_out |-> result.timed_out,
      stderr |-> result.stderr ]

\* What SandboxExecutor::execute hands to the numeric-tool task: an error, or
\* the result of a container that ran.
SandboxError == "failed to spawn docker process"
ExecuteOutcomes ==
    { [ok |-> FALSE, error |-> SandboxError, result |-> SandboxResultOf(FALSE, None, "")] }
    \cup { [ok |-> TRUE, error |-> "", result |-> SandboxResultOf(t, e, "")] :
             t \in BOOLEAN, e \in ExitCodes }

\* A numeric-tool task that lets the executor's error fail the task's result
\* silently: the default (skipped) result is kept.
MathResultOf_ErrSkipped(outcome) ==
    IF outcome.ok THEN from_sandbox(outcome.result) ELSE MathToolResultDefault

\* MathToolTask::run: the match on runner.execute(...)
MathResultOf(outcome) ==
    IF outcome.ok
    THEN from_sandbox(outcome.result)
    ELSE [MathToolResultDefault EXCEPT !.status = "failure", !.stderr = outcome.error]

\* A persist step that recommends a retry after a failure only.
persist_math_result_FailureOnly(ctx, result, script_name) ==
    LET retry_recommended == result.status = "failure"
    IN  [ctx EXCEPT !["math.result"] = Some(result),
                    !["math.status"] = Some(result.status),
                    !["math.retry_recommended"] = Some(retry_recommended),
                    !["math.degradation_note"] =
                        Some(IF retry_recommended
                             THEN <<"Math tool", result.status,
                                    "Falling back to non-numeric reasoning.">>
                             ELSE <<>>)]

\* persist_math_result
persist_math_result(ctx, result, script_name) ==
    LET retry_recommended == result.status \in {"failure", "timeout"}
        c1 == [ctx EXCEPT !["math.result"] = Some(result),
                          !["math.status"] = Some(result.status),
                          !["math.stdout"] = Some(""),
                          !["math.stderr"] = Some(result.stderr),
                          !["math.exit_code"] = Some(result.exit_code),
                          !["math.timed_out"] = Some(result.timed_out),
                          !["math.duration_ms"] = Some(0),
                          !["math.outputs"] = Some(<<>>),
                          !["math.retry_recommended"] = Some(retry_recommended),
                          !["math.degradation_note"] =
                              Some(IF retry_recommended
                                   THEN <<"Math tool", result.status,
                                          "Falling back to non-numeric reasoning.">>
                                   ELSE <<>>)]
    IN  IF IsSome(script_name)
        THEN CtxSet(c1, "math.script_name", Unwrap(script_name))
        ELSE c1

\* MathToolRequest values placed under math.request: the script text and the
\* optional script name.
MathRequests ==
    { [script |-> " ", script_name |-> None],
      [script |-> "print(1)", script_name |-> None],
      [script |-> "print(1)", script_name |-> Some("calc.py")] }

\* MathToolTask::run; `outcome` is what the executor answers when it is called.
MathToolRun(ctx, outcome) ==
    IF ~IsSome(ctx["math.request"])
    THEN record_trace(persist_math_result(ctx, MathToolResultDefault, None), TaskMathTool)
    ELSE LET request == Unwrap(ctx["math.request"])
             script_name == UnwrapOr(request.script_name, "math_tool.py")
         IN  IF IsBlank(request.script)
             THEN record_trace(persist_math_result(ctx, MathToolResultDefault,
                                                   request.script_name), TaskMathTool)
             ELSE record_trace(persist_math_result(ctx, MathResultOf(outcome),
                                                   Some(script_name)), TaskMathTool)

\* ------------------------------------------------------------------ graph
\* build_graph: the nodes added with add_task.
GraphNodes == { TaskResearcher, TaskAnalyst, TaskFactCheck, TaskCritic,
                TaskFinalize, TaskManualReview }

\* A start task that build_graph does not add to the graph.
StartTask_MathTool == TaskMathTool

\* build_graph: set_start_task
StartTask == TaskResearcher

\* A graph whose critic leads back to the researcher.
NextTask_Cycle(task, ctx) ==
    CASE task = TaskResearcher -> Some(TaskAnalyst)
      [] task = TaskAnalyst -> Some(TaskFactCheck)
      [] task = TaskFactCheck -> Some(TaskCritic)
      [] task = TaskCritic -> Some(TaskResearcher)
      [] OTHER -> None

\* A graph whose critic always leads to the finalizer.
NextTask_AlwaysFinalize(task, ctx) ==
    CASE task = TaskResearcher -> Some(TaskAnalyst)
      [] task = TaskAnalyst -> Some(TaskFactCheck)
      [] task = TaskFactCheck -> Some(TaskCritic)
      [] task = TaskCritic -> Some(TaskFinalize)
      [] OTHER -> None

\* build_graph: the edges; the conditional edge of the critic reads
\* critique.confident synchronously, absent counting as false.
NextTask(task, ctx) ==
    CASE task = TaskResearcher -> Some(TaskAnalyst)
      [] task = TaskAnalyst -> Some(TaskFactCheck)
      [] task = TaskFactCheck -> Some(TaskCritic)
      [] task = TaskCritic ->
            IF CtxGetOr(ctx, "critique.confident", FALSE)
            THEN Some(TaskFinalize) ELSE Some(TaskManualReview)
      [] OTHER -> None

\* ------------------------------------------------------------------ state
VARIABLES
    storage,          \* SessionStorage: session id -> Option(Session)
    calls,            \* the Orchestrator calls made so far, in call order
    max_concurrency,  \* SessionService.max_concurrency (after max(1))
    semaphore,        \* SessionService.semaphore: available permits
    sessions,         \* SessionService.sessions: id -> Option(SessionRecord)
    streams,          \* SessionService.streams: id -> channel of its sender, 0 if none
    channels,         \* number of broadcast channels created so far
    workers,          \* the background workers spawned by start_session, in spawn order
    subs,             \* the event_stream calls made so far
    session_permits,  \* API AppState.session_permits: available permits
    requests,         \* the API handle_query requests made so far
    task_runs,        \* single Task::run calls made on a context, with their results
    execs,            \* the DockerSandboxRunner::execute calls made so far
    streak,           \* SANDBOX_FAILURE_STREAK
    finished,         \* the execute calls that have ended, in the order they ended
    renders,          \* the trace renderings made so far, with their events
    hybrid_results,   \* the HybridRetriever::retrieve calls made so far, with their results
    store,            \* StubRetriever.store: session id -> documents
    ingested,         \* the documents ingested into the stub so far, in call order
    stub_results,     \* the StubRetriever::retrieve calls made so far, with their results
    normalized,       \* the normalize_session_id calls made so far, with their results
    graph,            \* a TaskGraph: nodes (id -> Option(dependencies)) and edges
    added,            \* the TaskGraph::add_node calls made on it, with their results
    orders,           \* the validate and topological_order calls made on it
    rig               \* a RigOrchestrator, its execute calls and the events emitted

orchVars == <<storage, calls>>
facadeVars == <<max_concurrency, semaphore, sessions, streams, channels, workers, subs>>
apiVars == <<session_permits, requests>>
toolVars == <<task_runs, execs, streak, finished>>
planVars == <<graph, added, orders, rig>>
libVars == <<renders, hybrid_results, store, ingested, stub_results, normalized,
             graph, added, orders, rig>>
vars == <<storage, calls, max_concurrency, semaphore, sessions, streams, channels,
          workers, subs, session_permits, requests, task_runs, execs, streak, finished,
          renders, hybrid_results, store, ingested, stub_results, normalized,
          graph, added, orders, rig>>

\* ------------------------------------------------------ orchestrator calls
\* FactCheckSettings::default (hundredths)
DefaultSettings == [min_confidence |-> 60, verification_count |-> 3]

\* Fact-check settings a caller may pass (the second is the one of the
\* manual_review_branch_triggers test).
SettingsChoices ==
    { DefaultSettings,
      [min_confidence |-> 95, verification_count |-> 0],
      [min_confidence |-> 50, verification_count |-> 0] }

\* SessionOptions::new, with the builder calls the callers use.
Options(retriever, settings, trace_enabled, namespace) ==
    [ retriever |-> retriever, settings |-> settings,
      trace_enabled |-> trace_enabled, namespace |-> namespace,
      initial_context |-> None, trace_output_dir |-> None ]

\* with_initial_context("math.request", ..), the only key besides
\* session.namespace that callers seed: as in the repository's tests it comes
\* with the stub retriever, the default settings and no tracing.
InitialContexts(retriever, settings, trace_enabled) ==
    IF retriever = "stub" /\ settings = DefaultSettings /\ ~trace_enabled
    THEN { None, Some([script |-> "print(1)", script_name |-> Some("calc.py")]) }
    ELSE { None }

NoSummary ==
    [ by |-> "none", verdict |-> "No final summary recorded",
      analysis |-> AnalystOutputDefault, confident |-> FALSE,
      fact_confidence |-> 0, verified |-> <<>> ]

NoResult == [ status |-> "none", session_id |-> "", summary |-> NoSummary,
              requires_manual |-> FALSE, trace_events |-> <<>>, trace_path |-> None,
              error |-> "" ]
ErrResult(msg) == [NoResult EXCEPT !.status = "err", !.error = msg]

\* A call of resume_research_session_with_report about to start.
NewResume(id, opts) ==
    [ kind |-> "resume", id |-> id, opts |-> opts, pc |-> "resume", sess |-> None,
      observed |-> TRUE, executed |-> <<>>, result |-> NoResult ]

\* A call of run_research_session_with_report about to start. `executed` is
\* the sequence of tasks the call has run; it is kept for the calls of direct
\* callers (`observed`) and no operation reads it.
NewCall(id, opts, observed) ==
    [ kind |-> "run", id |-> id, opts |-> opts, pc |-> "save", sess |-> None,
      observed |-> observed, executed |-> <<>>, result |-> NoResult ]

\* Session::new_from_task(session_id, research.id()) and the seeding of its
\* context in run_research_session_with_report. `wrote` collects the tasks
\* that have written final.summary into this session; no operation reads it.
FreshSession(id, opts) ==
    LET c1 == CtxSet(EmptyCtx, "query", "q")
        c2 == CtxSet(c1, "session_id", id)
        c3 == IF IsSome(opts.namespace)
              THEN CtxSet(c2, "session.namespace", Unwrap(opts.namespace)) ELSE c2
        c3m == IF IsSome(opts.initial_context)
               THEN CtxSet(c3, "math.request", Unwrap(opts.initial_context)) ELSE c3
        c4 == IF opts.trace_enabled
              THEN CtxSet(CtxSet(c3m, "trace.enabled", TRUE), "trace.collector", <<>>)
              ELSE c3m
    IN  [ id |-> id, current_task_id |-> StartTask, ctx |-> c4, wrote |-> {} ]

\* extract_final_summary
extract_final_summary(session) == CtxGetOr(session.ctx, "final.summary", NoSummary)

DEFAULT_TRACE_DIR == "data/traces"

\* persist_trace(dir, session_id, events): the path dir/{session_id}.json
\* when the file could be written.
persist_trace(dir, session_id, written) ==
    IF written THEN Some(<<dir, session_id>>) ELSE None

\* build_outcome: whether it calls persist_trace.
PersistsTrace(session) ==
    /\ CtxGetOr(session.ctx, "trace.enabled", FALSE)
    /\ CtxGetOr(session.ctx, "trace.collector", <<>>) # <<>>

\* The outcomes of writing the trace file: it is only attempted for an
\* enabled, non-empty trace, and a failure is logged and leaves no path.
PersistOutcomes(session) == IF PersistsTrace(session) THEN BOOLEAN ELSE {FALSE}

\* build_outcome
build_outcome(session, session_id, trace_output_dir, written) ==
    [ status |-> "ok",
      session_id |-> session_id,
      summary |-> extract_final_summary(session),
      requires_manual |-> CtxGetOr(session.ctx, "final.requires_manual", FALSE),
      trace_events |-> CtxGetOr(session.ctx, "trace.collector", <<>>),
      trace_path |-> IF PersistsTrace(session)
                     THEN persist_trace(UnwrapOr(trace_output_dir, DEFAULT_TRACE_DIR),
                                        session_id, written)
                     ELSE None,
      error |-> "" ]

Return(c, result) == [calls EXCEPT ![c].pc = "returned", ![c].result = result]

\* A run that keeps the context of a session it finds under its id and only
\* positions it at the start task.
OrchSave_KeepsContext(c) ==
    /\ c \in 1..Len(calls)
    /\ calls[c].pc = "save"
    /\ storage' = [storage EXCEPT ![calls[c].id] =
           IF IsSome(storage[calls[c].id])
           THEN Some([Unwrap(storage[calls[c].id]) EXCEPT !.current_task_id = StartTask])
           ELSE Some(FreshSession(calls[c].id, calls[c].opts))]
    /\ calls' = [calls EXCEPT ![c].pc = "ready"]
    /\ UNCHANGED <<libVars, toolVars, facadeVars, apiVars>>

\* run_research_session_with_report up to storage.save(session): building the
\* retriever or saving may fail, and then the call returns the error.
OrchSave(c) ==
    /\ c \in 1..Len(calls)
    /\ calls[c].pc = "save"
    /\ \E fail \in {"none", "storage"} \cup
                   (IF calls[c].opts.retriever = "qdrant" THEN {"retriever"} ELSE {}) :
         CASE fail = "none" ->
                /\ storage' = [storage EXCEPT
                       ![calls[c].id] = Some(FreshSession(calls[c].id, calls[c].opts))]
                /\ calls' = [calls EXCEPT ![c].pc = "ready"]
           [] fail = "storage" ->
                /\ calls' = Return(c, ErrResult("failed to persist session"))
                /\ UNCHANGED storage
           [] OTHER ->
                /\ calls' = Return(c, ErrResult("retriever unavailable"))
                /\ UNCHANGED storage
    /\ UNCHANGED <<libVars, toolVars, facadeVars, apiVars>>

\* execute_until_complete, FlowRunner::run, first half: the session is loaded
\* and its current task starts. A session that is not in the storage ends the
\* call with an error.
TaskBegin(c) ==
    /\ c \in 1..Len(calls)
    /\ calls[c].pc = "ready"
    /\ calls' = IF IsSome(storage[calls[c].id])
                THEN [calls EXCEPT ![c].pc = "exec", ![c].sess = storage[calls[c].id]]
                ELSE Return(c, ErrResult("graph execution failure"))
    /\ UNCHANGED <<libVars, toolVars, storage, facadeVars, apiVars>>

\* The message of an ExecutionStatus::Error the Engine reports for a step.
TaskErrorMsg == "task failed"

\* The steps at which the Engine is let report an Error: any step of a direct
\* caller's call, the first step of a call made by a service.
EngineMayFail(call, task) == call.observed \/ task = StartTask

\* FlowRunner::run, second half: the task has run on the session's context, the
\* session is positioned by the task's NextAction and the graph's edge, and is
\* persisted. End completes the run; otherwise execute_until_complete loops.
\* When the Engine reports Error(message) instead, execute_until_complete
\* returns the message as the call's error.
TaskEnd(c) ==
    /\ c \in 1..Len(calls)
    /\ calls[c].pc = "exec"
    /\ LET s == Unwrap(calls[c].sess)
           task == s.current_task_id
       IN  \/ /\ EngineMayFail(calls[c], task)
              /\ calls' = [calls EXCEPT ![c].pc = "returned", ![c].sess = None,
                                          ![c].result = ErrResult(TaskErrorMsg)]
              /\ UNCHANGED storage
           \/ \E outcome \in (IF task = TaskResearcher
                              THEN RetrieveOutcomes(calls[c].opts.retriever)
                              ELSE {[ok |-> TRUE, docs |-> <<>>]}) :
             LET ctx == TaskRun(task, s.ctx, calls[c].opts.settings, outcome)
                 next == NextTask(task, ctx)
                 ended == TaskNextAction(task) = "End" \/ ~IsSome(next)
                 writes == IsSome(TaskRun(task, [s.ctx EXCEPT !["final.summary"] = None],
                                          calls[c].opts.settings, outcome)["final.summary"])
                 saved == [ s EXCEPT !.ctx = ctx,
                                     !.current_task_id =
                                         IF ended THEN task ELSE Unwrap(next),
                                     !.wrote = IF writes THEN @ \cup {task} ELSE @ ]
             IN  /\ storage' = [storage EXCEPT ![calls[c].id] = Some(saved)]
                 /\ calls' = [calls EXCEPT
                        ![c].pc = IF ended THEN "outcome" ELSE "ready",
                        ![c].sess = None,
                        ![c].executed = IF calls[c].observed THEN Append(@, task) ELSE @]
    /\ UNCHANGED <<libVars, toolVars, facadeVars, apiVars>>

\* run_research_session_with_report after execute_until_complete: load_session
\* and build_outcome.
OrchOutcome(c) ==
    /\ c \in 1..Len(calls)
    /\ calls[c].pc = "outcome"
    /\ IF IsSome(storage[calls[c].id])
       THEN \E written \in PersistOutcomes(Unwrap(storage[calls[c].id])) :
              calls' = [ calls EXCEPT
                  ![c].pc = "returned",
                  ![c].sess = storage[calls[c].id],
                  ![c].result = build_outcome(Unwrap(storage[calls[c].id]), calls[c].id,
                                              calls[c].opts.trace_output_dir, written) ]
       ELSE calls' = Return(c, ErrResult("session not found"))
    /\ UNCHANGED <<libVars, toolVars, storage, facadeVars, apiVars>>

\* A call of load_session_report or of delete_session about to start.
NewLoadOrDelete(kind, id, opts) ==
    [ kind |-> kind, id |-> id, opts |-> opts, pc |-> kind, sess |-> None,
      observed |-> TRUE, executed |-> <<>>, result |-> NoResult ]

\* A load that opens a storage of its own (StorageChoice::InMemory), where no
\* session is found.
LoadSessionReport_OwnStorage(c) ==
    /\ c \in 1..Len(calls)
    /\ calls[c].pc = "load"
    /\ calls' = Return(c, ErrResult("session not found"))
    /\ UNCHANGED <<libVars, toolVars, storage, facadeVars, apiVars>>

\* load_session_report: load_session and build_outcome.
LoadSessionReport(c) ==
    /\ c \in 1..Len(calls)
    /\ calls[c].pc = "load"
    /\ IF IsSome(storage[calls[c].id])
       THEN \E written \in PersistOutcomes(Unwrap(storage[calls[c].id])) :
              calls' = Return(c, build_outcome(Unwrap(storage[calls[c].id]), calls[c].id,
                                               calls[c].opts.trace_output_dir, written))
       ELSE calls' = Return(c, ErrResult("session not found"))
    /\ UNCHANGED <<libVars, toolVars, storage, facadeVars, apiVars>>

\* A delete that reports success and leaves the session where it is.
DeleteSession_Keeps(c) ==
    /\ c \in 1..Len(calls)
    /\ calls[c].pc = "delete"
    /\ calls' = IF IsSome(storage[calls[c].id])
                THEN Return(c, [NoResult EXCEPT !.status = "ok"])
                ELSE Return(c, ErrResult("session not found"))
    /\ UNCHANGED <<libVars, toolVars, storage, facadeVars, apiVars>>

\* delete_session: a missing session is an error; else storage.delete, which
\* may fail.
DeleteSession(c) ==
    /\ c \in 1..Len(calls)
    /\ calls[c].pc = "delete"
    /\ IF ~IsSome(storage[calls[c].id])
       THEN /\ calls' = Return(c, ErrResult("session not found"))
            /\ UNCHANGED storage
       ELSE \/ /\ calls' = Return(c, ErrResult("failed to delete session"))
               /\ UNCHANGED storage
            \/ /\ calls' = Return(c, [NoResult EXCEPT !.status = "ok"])
               /\ storage' = [storage EXCEPT ![calls[c].id] = None]
    /\ UNCHANGED <<libVars, toolVars, facadeVars, apiVars>>

\* The trace output directories callers pass: none (the default) or their own.
TraceDirs == { None, Some("out") }

\* A caller of the library (CLI, tests) makes its next call on the shared
\* storage once the previous one has returned: run, resume, load or delete.
\* with_trace_output_dir also enables tracing.
LifeStart ==
    /\ Len(calls) < MaxLifeCalls
    /\ \A c \in 1..Len(calls) : calls[c].pc = "returned"
    /\ \E id \in SessionIds, dir \in TraceDirs :
         LET opts(settings, trace_enabled) ==
                 [Options("stub", settings, trace_enabled \/ IsSome(dir), None)
                     EXCEPT !.trace_output_dir = dir]
         IN  \/ \E settings \in { DefaultSettings,
                                   [min_confidence |-> 95, verification_count |-> 0] },
                   trace_enabled \in BOOLEAN :
                   calls' = Append(calls, NewCall(id, opts(settings, trace_enabled), TRUE))
             \/ \E trace_enabled \in BOOLEAN :
                   calls' = Append(calls, NewResume(id, opts(DefaultSettings, trace_enabled)))
             \/ calls' = Append(calls, NewLoadOrDelete("load", id,
                       [Options("stub", DefaultSettings, FALSE, None)
                           EXCEPT !.trace_output_dir = dir]))
             \/ /\ dir = None
                /\ calls' = Append(calls, NewLoadOrDelete("delete", id,
                          Options("stub", DefaultSettings, FALSE, None)))
    /\ UNCHANGED <<libVars, toolVars, storage, facadeVars, apiVars>>

\* A resume that starts the session over from the start task.
ResumeLoad_Restart(c) ==
    /\ c \in 1..Len(calls)
    /\ calls[c].pc = "resume"
    /\ IF IsSome(storage[calls[c].id])
       THEN /\ storage' = [storage EXCEPT
                   ![calls[c].id] = Some(FreshSession(calls[c].id, calls[c].opts))]
            /\ calls' = [calls EXCEPT ![c].pc = "ready"]
       ELSE /\ calls' = Return(c, ErrResult("session not found"))
            /\ UNCHANGED storage
    /\ UNCHANGED <<libVars, toolVars, facadeVars, apiVars>>

\* resume_research_session_with_report up to execute_until_complete: the
\* retriever is built, the session is loaded, and when tracing is asked for the
\* session gets trace.enabled and (if it has none) an empty collector and is
\* saved. Any of the three may fail, and then the call returns the error.
ResumeLoad(c) ==
    /\ c \in 1..Len(calls)
    /\ calls[c].pc = "resume"
    /\ \E fail \in {"none"} \cup
                   (IF calls[c].opts.retriever = "qdrant" THEN {"retriever"} ELSE {}) \cup
                   (IF calls[c].opts.trace_enabled THEN {"storage"} ELSE {}) :
         CASE fail = "retriever" ->
                /\ calls' = Return(c, ErrResult("retriever unavailable"))
                /\ UNCHANGED storage
           [] ~IsSome(storage[calls[c].id]) ->
                /\ calls' = Return(c, ErrResult("session not found"))
                /\ UNCHANGED storage
           [] fail = "storage" ->
                /\ calls' = Return(c, ErrResult("failed to persist session"))
                /\ UNCHANGED storage
           [] OTHER ->
                LET s == Unwrap(storage[calls[c].id])
                    c1 == CtxSet(s.ctx, "trace.enabled", TRUE)
                    c2 == IF IsSome(c1["trace.collector"]) THEN c1
                          ELSE CtxSet(c1, "trace.collector", <<>>)
                IN  /\ storage' = IF calls[c].opts.trace_enabled
                                  THEN [storage EXCEPT ![calls[c].id] = Some([s EXCEPT !.ctx = c2])]
                                  ELSE storage
                    /\ calls' = [calls EXCEPT ![c].pc = "ready"]
    /\ UNCHANGED <<libVars, toolVars, facadeVars, apiVars>>

\* A direct caller calls resume_research_session_with_report once its
\* previous call has returned.
ResumeStart ==
    /\ Len(calls) < MaxCalls
    /\ \A c \in 1..Len(calls) : calls[c].pc = "returned"
    /\ \E id \in SessionIds, retriever \in {"stub", "qdrant"},
          settings \in SettingsChoices, trace_enabled \in BOOLEAN :
         calls' = Append(calls, NewResume(id, Options(retriever, settings, trace_enabled, None)))
    /\ UNCHANGED <<libVars, toolVars, storage, facadeVars, apiVars>>

\* A direct caller (CLI, tests) calls run_research_session_with_report once
\* its previous call has returned.
RunStart ==
    /\ Len(calls) < MaxCalls
    /\ \A c \in 1..Len(calls) : calls[c].pc = "returned"
    /\ \E id \in SessionIds, retriever \in {"stub", "qdrant"},
          settings \in SettingsChoices, trace_enabled \in BOOLEAN :
         \E initial \in InitialContexts(retriever, settings, trace_enabled) :
         calls' = Append(calls,
             NewCall(id, [Options(retriever, settings, trace_enabled, None)
                             EXCEPT !.initial_context = initial], TRUE))
    /\ UNCHANGED <<libVars, toolVars, storage, facadeVars, apiVars>>

\* ---------------------------------------------------------- session service
\* AppConfig.default_enable_trace of the modelled deployment.
DefaultEnableTrace == FALSE

\* SessionEvent::started
StartedEvent ==
    [ kind |-> "started", message |-> "session started", summary |-> None,
      requires_manual |-> None ]

\* SessionEvent::completed
CompletedEvent(outcome) ==
    [ kind |-> "completed", message |-> "session completed",
      summary |-> Some(outcome.summary), requires_manual |-> Some(outcome.requires_manual) ]

\* An error event that drops the error's text.
ErrorEvent_Generic(error) ==
    [ kind |-> "error", message |-> "session failed", summary |-> None,
      requires_manual |-> Some(FALSE) ]

\* SessionEvent::error
ErrorEvent(error) ==
    [ kind |-> "error", message |-> error, summary |-> None,
      requires_manual |-> Some(FALSE) ]

TerminalKinds == {"completed", "error"}

\* SessionRecord::Running / Completed / Failed. `by` names the worker that
\* stored the record (0: start_session); it is not read by any operation.
RunningRecord ==
    [ state |-> "Running", outcome |-> NoResult, error |-> "", event |-> StartedEvent, by |-> 0 ]
CompletedRecord(outcome, event, w) ==
    [ state |-> "Completed", outcome |-> outcome, error |-> "", event |-> event, by |-> w ]
FailedRecord(error, event, w) ==
    [ state |-> "Failed", outcome |-> NoResult, error |-> error, event |-> event, by |-> w ]

IsTerminal(rec) == IsSome(rec) /\ Unwrap(rec).state \in {"Completed", "Failed"}

\* A semaphore whose acquire hands out a permit without taking one.
acquire_owned_NoTake(permits) == permits

\* Semaphore::acquire_owned, once it resolves: one permit is taken.
acquire_owned(permits) == permits - 1

\* drop(permit)
release_permit(permits) == permits + 1

\* broadcast::Sender::send on channel ch: every receiver subscribed to it
\* gets the event (the buffer of 32 is never filled within MaxStarts starts).
Broadcast(subscribers, ch, event) ==
    [ i \in 1..Len(subscribers) |->
        IF subscribers[i].pc = "live" /\ subscribers[i].chan = ch
        THEN [subscribers[i] EXCEPT !.items = Append(@, event)]
        ELSE subscribers[i] ]

\* A worker that announces completion whatever the result.
TerminalEvent_AlwaysCompleted(result) == CompletedEvent(result)

\* The record and the event the worker derives from the Orchestrator's result
\* (the match on `result` in the spawned task).
TerminalEvent(result) ==
    IF result.status = "ok" THEN CompletedEvent(result) ELSE ErrorEvent(result.error)
TerminalRecord(result, w) ==
    IF result.status = "ok"
    THEN CompletedRecord(result, TerminalEvent(result), w)
    ELSE FailedRecord(result.error, TerminalEvent(result), w)

\* SessionService::start_session: the id is the caller's or a minted one; the
\* sender of the id's channel is taken from the stream map or created, the
\* started event is sent, the record becomes Running and the worker is spawned.
StartSession ==
    /\ Len(workers) + Len(requests) < MaxStarts
    /\ \E id \in SessionIds :
         LET fresh == streams[id] = 0
             ch == IF fresh THEN channels + 1 ELSE streams[id]
         IN  /\ channels' = IF fresh THEN channels + 1 ELSE channels
             /\ streams' = [streams EXCEPT ![id] = ch]
             /\ subs' = Broadcast(subs, ch, StartedEvent)
             /\ sessions' = [sessions EXCEPT ![id] = Some(RunningRecord)]
             /\ workers' = Append(workers,
                    [ sid |-> id, pc |-> "acquire", chan |-> ch, call |-> 0,
                      holds |-> FALSE, event |-> None, nsent |-> 0 ])
    /\ UNCHANGED <<libVars, toolVars, orchVars, max_concurrency, semaphore, apiVars>>

\* The spawned worker: semaphore.acquire_owned().await resolves when a permit
\* is free (the semaphore is never closed), and the worker calls
\* run_research_session_with_report with the shared storage.
WorkerAcquire(w) ==
    /\ w \in 1..Len(workers)
    /\ workers[w].pc = "acquire"
    /\ semaphore > 0
    /\ semaphore' = acquire_owned(semaphore)
    /\ calls' = Append(calls,
           NewCall(workers[w].sid,
                   Options("stub", DefaultSettings, DefaultEnableTrace, None), FALSE))
    /\ workers' = [workers EXCEPT ![w].pc = "orch", ![w].call = Len(calls) + 1,
                                  ![w].holds = TRUE]
    /\ UNCHANGED <<libVars, toolVars, storage, max_concurrency, sessions, streams, channels, subs, apiVars>>

\* The Orchestrator call has returned: drop(permit).
WorkerRelease(w) ==
    /\ w \in 1..Len(workers)
    /\ workers[w].pc = "orch"
    /\ calls[workers[w].call].pc = "returned"
    /\ semaphore' = release_permit(semaphore)
    /\ workers' = [workers EXCEPT ![w].pc = "store", ![w].holds = FALSE]
    /\ UNCHANGED <<libVars, toolVars, orchVars, max_concurrency, sessions, streams, channels, subs, apiVars>>

\* sessions.insert(id, Completed { outcome, event } | Failed { error, event })
WorkerStore(w) ==
    /\ w \in 1..Len(workers)
    /\ workers[w].pc = "store"
    /\ LET result == calls[workers[w].call].result
       IN  /\ sessions' = [sessions EXCEPT
                  ![workers[w].sid] = Some(TerminalRecord(result, w))]
           /\ workers' = [workers EXCEPT ![w].pc = "send",
                                         ![w].event = Some(TerminalEvent(result))]
    /\ UNCHANGED <<libVars, toolVars, orchVars, max_concurrency, semaphore, streams, channels, subs, apiVars>>

\* sender_for_task.send(event)
WorkerSend(w) ==
    /\ w \in 1..Len(workers)
    /\ workers[w].pc = "send"
    /\ subs' = Broadcast(subs, workers[w].chan, Unwrap(workers[w].event))
    /\ workers' = [workers EXCEPT ![w].pc = "remove", ![w].nsent = @ + 1]
    /\ UNCHANGED <<libVars, toolVars, orchVars, max_concurrency, semaphore, sessions, streams, channels, apiVars>>

\* A removal that leaves the sender in the map.
streams_remove_Noop(map, id) == map

\* DashMap::remove on the stream map
streams_remove(map, id) == [map EXCEPT ![id] = 0]

\* streams.remove(&session_id); the task ends and drops its sender.
WorkerRemove(w) ==
    /\ w \in 1..Len(workers)
    /\ workers[w].pc = "remove"
    /\ streams' = streams_remove(streams, workers[w].sid)
    /\ workers' = [workers EXCEPT ![w].pc = "done"]
    /\ UNCHANGED <<libVars, toolVars, orchVars, max_concurrency, semaphore, sessions, channels, subs, apiVars>>

\* The worker task is dropped while it is inside the Orchestrator call (the
\* call panics, or the runtime drops the task): its locals, the permit and the
\* sender among them, are dropped; nothing else runs.
WorkerDropped(w) ==
    /\ w \in 1..Len(workers)
    /\ workers[w].pc = "orch"
    /\ calls[workers[w].call].pc # "returned"
    /\ semaphore' = release_permit(semaphore)
    /\ calls' = [calls EXCEPT ![workers[w].call].pc = "dropped"]
    /\ workers' = [workers EXCEPT ![w].pc = "dropped", ![w].holds = FALSE]
    /\ UNCHANGED <<libVars, toolVars, storage, max_concurrency, sessions, streams, channels, subs, apiVars>>

\* A broadcast channel is open while a sender of it is alive: the one in the
\* stream map, or the clone a worker that has not ended holds.
ChanOpen(ch) ==
    \/ \E id \in SessionIds : streams[id] = ch
    \/ \E w \in 1..Len(workers) :
         workers[w].chan = ch /\ workers[w].pc \notin {"done", "dropped"}

\* A replay that does not read the stored event.
ReplayStream_Started(rec) == <<StartedEvent>>

\* event_stream on a Completed or Failed record: stream::iter over the one
\* stored event.
ReplayStream(rec) == <<rec.event>>

\* SessionService::event_stream, first half: sessions.get(id). A Completed or
\* Failed record is answered with a one-item stream of its stored event.
EventStreamCheck ==
    /\ Len(subs) < MaxSubs
    /\ \E id \in SessionIds :
         subs' = Append(subs,
             IF IsTerminal(sessions[id])
             THEN [ sid |-> id, pc |-> "replay", chan |-> 0,
                    items |-> ReplayStream(Unwrap(sessions[id])), by |-> Unwrap(sessions[id]).by ]
             ELSE [ sid |-> id, pc |-> "subscribe", chan |-> 0, items |-> <<>>, by |-> 0 ])
    /\ UNCHANGED <<libVars, toolVars, orchVars, max_concurrency, semaphore, sessions, streams, channels,
                   workers, apiVars>>

\* SessionService::event_stream, second half: streams.get(id) and
\* sender.subscribe(), or None when the map holds no sender for the id.
EventStreamSubscribe(s) ==
    /\ s \in 1..Len(subs)
    /\ subs[s].pc = "subscribe"
    /\ subs' = [subs EXCEPT
           ![s].pc = IF streams[subs[s].sid] # 0 THEN "live" ELSE "absent",
           ![s].chan = streams[subs[s].sid]]
    /\ UNCHANGED <<libVars, toolVars, orchVars, max_concurrency, semaphore, sessions, streams, channels,
                   workers, apiVars>>

\* ------------------------------------------------------------------ API gate
\* A try-acquire that always grants.
try_acquire_owned_AlwaysGrant(permits) == [ok |-> TRUE, permits |-> permits - 1]

\* Semaphore::try_acquire_owned
try_acquire_owned(permits) ==
    IF permits > 0 THEN [ok |-> TRUE, permits |-> permits - 1]
    ELSE [ok |-> FALSE, permits |-> permits]

\* handle_query up to the Orchestrator call: acquire_session_permit answers
\* 429 Too Many Requests when no permit is free, and the handler returns.
HandleQuery ==
    /\ Len(workers) + Len(requests) < MaxStarts
    /\ \E id \in ApiSessionIds :
         LET got == try_acquire_owned(session_permits)
         IN  /\ session_permits' = got.permits
             /\ IF got.ok
                THEN /\ calls' = Append(calls,
                            NewCall(id, Options("stub", DefaultSettings, FALSE, None), FALSE))
                     /\ requests' = Append(requests,
                            [pc |-> "running", call |-> Len(calls) + 1, status |-> 0])
                ELSE /\ calls' = calls
                     /\ requests' = Append(requests,
                            [pc |-> "rejected", call |-> 0, status |-> 429])
    /\ UNCHANGED <<libVars, toolVars, storage, facadeVars>>

\* handle_query after the Orchestrator call: the response is built and the
\* permit is dropped with the handler's scope.
HandleQueryRespond(r) ==
    /\ r \in 1..Len(requests)
    /\ requests[r].pc = "running"
    /\ calls[requests[r].call].pc = "returned"
    /\ session_permits' = release_permit(session_permits)
    /\ requests' = [requests EXCEPT
           ![r].pc = "done",
           ![r].status = IF calls[requests[r].call].result.status = "ok" THEN 200 ELSE 500]
    /\ UNCHANGED <<libVars, toolVars, orchVars, facadeVars>>

\* ---------------------------------------------------------------- sandbox
\* A path string, by what PathBuf makes of it: whether it is absolute, and
\* its components.
PathOf(abs, comps) == [abs |-> abs, comps |-> comps]
RelPath == PathOf(FALSE, <<"calc.py">>)
NestedPath == PathOf(FALSE, <<"out", "plot.png">>)
AbsPath == PathOf(TRUE, <<"etc", "passwd">>)
ParentPath == PathOf(FALSE, <<"..", "secret">>)
InnerParentPath == PathOf(FALSE, <<"out", "..", "x">>)

\* A check that only looks for absolute paths.
ensure_relpath_AbsOnly(path) == ~path.abs

\* ensure_relpath(path).is_ok()
ensure_relpath(path) ==
    /\ ~path.abs
    /\ \A i \in 1..Len(path.comps) : path.comps[i] # ".."

\* ensure_not_empty(value, field).is_ok()
ensure_not_empty(value) == ~IsBlank(value)

\* SandboxRequest: args and timeout are left out, files and expected outputs
\* are given by their paths.
SandboxRequestOf(script_name, script_contents, files, expected_outputs) ==
    [ script_name |-> script_name, script_contents |-> script_contents,
      files |-> files, expected_outputs |-> expected_outputs ]

\* The requests callers hand to execute.
SandboxRequests ==
    { SandboxRequestOf(RelPath, "print(1)", <<NestedPath>>, <<NestedPath>>),
      SandboxRequestOf(AbsPath, "print(1)", <<>>, <<>>),
      SandboxRequestOf(ParentPath, "print(1)", <<>>, <<>>),
      SandboxRequestOf(RelPath, " ", <<>>, <<>>),
      SandboxRequestOf(RelPath, "print(1)", <<RelPath, InnerParentPath>>, <<>>),
      SandboxRequestOf(RelPath, "print(1)", <<>>, <<NestedPath, AbsPath>>) }

\* SandboxRequest::validate(..).is_ok()
validate(request) ==
    /\ ensure_relpath(request.script_name)
    /\ ensure_not_empty(request.script_contents)
    /\ \A i \in 1..Len(request.files) : ensure_relpath(request.files[i])
    /\ \A i \in 1..Len(request.expected_outputs) :
          ensure_relpath(request.expected_outputs[i])

InvalidRequest == "invalid request"
\* Errors of execute_internal before the container process exists.
StartErrors == { "failed to create sandbox workspace", "failed to write file", SandboxError }
\* Errors of execute_internal while the container process runs.
WaitErrors == { "failed to wait for docker process", "failed to drain sandbox pipe" }

ErrOutcome(error) ==
    [ok |-> FALSE, error |-> error, result |-> SandboxResultOf(FALSE, None, "")]
OkOutcome(result) == [ok |-> TRUE, error |-> "", result |-> result]

\* An execute call: its request, where the call stands (running: awaiting
\* the container within the timeout; killed: the timeout has elapsed, the
\* kill was issued and the call awaits the exit; returned; dropped: the
\* future was dropped at one of these awaits),
\* its workspace directory (none: never created; present; removed; left:
\* still there after the guard was dropped), whether the container process
\* was started, what the call returned, the status label and the streak of
\* its telemetry record, whether it logged the elevated record, and the
\* status the numeric-tool task reports for what it returned.
ExecOf(request, pc, ws, proc, ret) ==
    [ request |-> request, pc |-> pc, ws |-> ws, proc |-> proc, ret |-> ret,
      label |-> "", failure_streak |-> 0, elevated |-> FALSE,
      kill |-> "none",
      reported |-> IF pc = "returned" THEN MathResultOf(ret).status ELSE "" ]

\* WorkspaceGuard::drop: remove_dir_all is attempted and a failure is only
\* logged. What the host wrote itself can be removed; what the container
\* process left in the bind-mounted directory may resist removal.
GuardDropped(proc) == IF proc THEN {"removed", "left"} ELSE {"removed"}

\* execute_internal up to its first await: validation, workspace creation,
\* materialising the script and the files, spawning the container process.
ExecStart ==
    /\ Len(execs) < MaxExecs
    /\ \E request \in SandboxRequests :
          IF ~validate(request)
          THEN /\ execs' = Append(execs, ExecOf(request, "returned", "none", FALSE,
                                                 ErrOutcome(InvalidRequest)))
               /\ UNCHANGED finished
          ELSE \/ \E error \in StartErrors :
                    /\ execs' = Append(execs,
                          ExecOf(request, "returned",
                                 IF error = "failed to create sandbox workspace"
                                 THEN "none" ELSE "removed",
                                 FALSE, ErrOutcome(error)))
                    /\ finished' = Append(finished, Len(execs) + 1)
               \/ /\ execs' = Append(execs, ExecOf(request, "running", "present", TRUE,
                                                    ErrOutcome("")))
                  /\ UNCHANGED finished
    /\ UNCHANGED <<libVars, orchVars, facadeVars, apiVars, task_runs, streak>>

\* execute_internal when time::timeout(request.timeout, child.wait()) elapses:
\* child.kill() is awaited, and a failure of it is only logged.
ExecTimeout(e) ==
    /\ e <= Len(execs)
    /\ execs[e].pc = "running"
    /\ \E kill \in {"killed", "kill failed"} :
          execs' = [execs EXCEPT ![e].pc = "killed", ![e].kill = kill]
    /\ UNCHANGED <<libVars, orchVars, facadeVars, apiVars, task_runs, streak, finished>>

\* An end of the call that counts a wait or pipe error as a failure.
ExecFinish_ErrCounts(e) ==
    /\ e <= Len(execs)
    /\ execs[e].pc \in {"running", "killed"}
    /\ \E ws \in GuardDropped(execs[e].proc), error \in WaitErrors :
          execs' = [execs EXCEPT ![e] =
              [ ExecOf(@.request, "returned", ws, TRUE, ErrOutcome(error))
                  EXCEPT !.kill = execs[e].kill ]]
    /\ streak' = streak + 1
    /\ finished' = Append(finished, e)
    /\ UNCHANGED <<libVars, orchVars, facadeVars, apiVars, task_runs>>

\* execute_internal from the end of the wait to its return: either the wait
\* or a pipe fails and the error is returned, or the exit status is there
\* (after a timeout: from the wait that follows the kill), the outputs are
\* collected, the guard is dropped, the streak is updated and the telemetry
\* is written.
ExecFinish(e) ==
    /\ e <= Len(execs)
    /\ execs[e].pc \in {"running", "killed"}
    /\ \E ws \in GuardDropped(execs[e].proc) :
          \/ \E error \in WaitErrors :
                /\ execs' = [execs EXCEPT ![e] =
                      [ ExecOf(@.request, "returned", ws, TRUE, ErrOutcome(error))
                          EXCEPT !.kill = execs[e].kill ]]
                /\ UNCHANGED streak
          \/ \E exit_code \in ExitCodes :
                LET timed_out == execs[e].pc = "killed"
                    ok == success(timed_out, exit_code)
                    failure_streak == IF ok THEN 0 ELSE streak + 1
                    ret == OkOutcome(SandboxResultOf(timed_out, exit_code, ""))
                IN  /\ streak' = failure_streak
                    /\ execs' = [execs EXCEPT ![e] =
                          [ ExecOf(@.request, "returned", ws, TRUE, ret) EXCEPT
                              !.label = status_label(timed_out, exit_code),
                              !.failure_streak = failure_streak,
                              !.elevated = ~ok /\ failure_streak >= 3,
                              !.kill = execs[e].kill ]]
    /\ finished' = Append(finished, e)
    /\ UNCHANGED <<libVars, orchVars, facadeVars, apiVars, task_runs>>

\* The future of execute is dropped while it awaits the container: the
\* child is killed (kill_on_drop) and the guard is dropped; nothing else of
\* execute_internal runs.
ExecCancel(e) ==
    /\ e <= Len(execs)
    /\ execs[e].pc \in {"running", "killed"}
    /\ \E ws \in GuardDropped(execs[e].proc) :
          execs' = [execs EXCEPT ![e] =
              [ ExecOf(@.request, "dropped", ws, TRUE, ErrOutcome(""))
                  EXCEPT !.kill = execs[e].kill ]]
    /\ UNCHANGED <<libVars, orchVars, facadeVars, apiVars, task_runs, streak, finished>>

\* ------------------------------------------------------------------ traces
\* Text is a sequence of pieces. A piece is a run of characters: `t` names
\* it, `a` and `b` are the step numbers it contains (0: none).
Piece(t, a, b) == [t |-> t, a |-> a, b |-> b]
Text(t) == Piece(t, 0, 0)
NL == Text("\n")
Quote == Text("\"")
\* The characters of a Mermaid link line and of a Graphviz link line.
MermaidLink(a, b) == Piece("  step_ --> step_", a, b)
GraphvizLink(a, b) == Piece("  step_ -> step_;", a, b)

\* str::replace, piece by piece, for the replacements of the two escapers.
Replace(text, f(_)) == [i \in 1..Len(text) |-> f(text[i])]

\* sanitize_mermaid
sanitize_mermaid(text) ==
    LET f(p) == CASE p = Text("\\") -> Text("\\\\")
                  [] p = Quote -> Text("\\\"")
                  [] p = Text("[") -> Text("(")
                  [] p = Text("]") -> Text(")")
                  [] p = NL -> Text("<br/>")
                  [] OTHER -> p
    IN  Replace(text, f)

\* escape_graphviz
escape_graphviz(text) ==
    LET f(p) == CASE p = Quote -> Text("\\\"")
                  [] p = NL -> Text(" ")
                  [] OTHER -> p
    IN  Replace(text, f)

\* TraceSummary::from_events
from_events(events) ==
    [ idx \in 1..Len(events) |->
        [ index |-> idx, task_id |-> events[idx].task_id, message |-> events[idx].message ] ]

\* Concatenation of f(1), .., f(n).
Concat(n, f(_)) ==
    LET c[k \in 0..n] == IF k = 0 THEN <<>> ELSE c[k - 1] \o f(k)
    IN  c[n]

\* TraceSummary::render_markdown
render_markdown(steps) ==
    IF steps = <<>>
    THEN <<Text("No trace events recorded.")>>
    ELSE LET line(i) == <<Piece("_. ", steps[i].index, 0)>> \o steps[i].task_id
                        \o <<Text(" -> ")>> \o steps[i].message \o <<NL>>
         IN  <<Text("### Trace Summary"), NL>> \o Concat(Len(steps), line)

\* TraceSummary::render_mermaid
render_mermaid(steps) ==
    IF steps = <<>>
    THEN <<Text("flowchart TD"), NL, Text("  %% no trace events captured")>>
    ELSE LET node(i) == <<Piece("  step_[\"", steps[i].index, 0)>>
                        \o sanitize_mermaid(steps[i].task_id \o <<Text(": ")>>
                                            \o steps[i].message)
                        \o <<Text("\"]"), NL>>
             link(i) == <<MermaidLink(i, i + 1), NL>>
         IN  <<Text("flowchart TD"), NL, Text("  %% auto-generated trace"), NL>>
             \o Concat(Len(steps), node) \o Concat(Len(steps) - 1, link)

\* TraceSummary::render_graphviz
render_graphviz(steps) ==
    IF steps = <<>>
    THEN <<Text("digraph Trace {"), NL, Text("  // no trace events captured"), NL, Text("}")>>
    ELSE LET node(i) == <<Piece("  step_ [label=\"", steps[i].index, 0)>>
                        \o steps[i].task_id \o <<Text(": ")>>
                        \o escape_graphviz(steps[i].message)
                        \o <<Text("\"];"), NL, NL>>
             link(i) == <<GraphvizLink(i, i + 1), NL>>
         IN  <<Text("digraph Trace {"), NL, Text("  rankdir=LR;"), NL,
               Text("  node [shape=box];"), NL>>
             \o Concat(Len(steps), node) \o Concat(Len(steps) - 1, link)
             \o <<Text("}"), NL>>

\* The task ids and messages of the events handed to TraceEvent::new: plain
\* ones, and ones that carry quotes, line breaks and the text of a link line.
TaskIdTexts ==
    { <<Text("critic")>>, <<Text("a"), NL, GraphvizLink(1, 1), NL, Text("b")>> }
MessageTexts ==
    { <<Text("verdict: auto")>>,
      <<Quote, NL, MermaidLink(1, 1), NL, GraphvizLink(1, 1), NL>> }
TraceEvents == [task_id : TaskIdTexts, message : MessageTexts]

\* TraceSummary::from_events on a sequence of events, and the three renderers
\* on the summary.
RenderTrace ==
    /\ Len(renders) < MaxRenders
    /\ \E n \in 0..MaxEvents : \E events \in [1..n -> TraceEvents] :
          LET steps == from_events(events)
          IN  renders' = Append(renders,
                  [ events |-> events, steps |-> steps,
                    markdown |-> render_markdown(steps),
                    mermaid |-> render_mermaid(steps),
                    graphviz |-> render_graphviz(steps) ])
    /\ UNCHANGED <<planVars, orchVars, facadeVars, apiVars, toolVars,
                   hybrid_results, store, ingested, stub_results, normalized>>

\* ------------------------------------------------------- hybrid retriever
\* Scores are in hundredths (1.0 is 100). No score is NaN.
\* lexical_boost: the share of the query tokens found among the keywords.
lexical_boost(query_tokens, doc_keywords) ==
    IF query_tokens = {} \/ doc_keywords = <<>> THEN 0
    ELSE LET overlap == Cardinality({ i \in DOMAIN doc_keywords :
                                          doc_keywords[i] \in query_tokens })
         IN  IF overlap = 0 THEN 0 ELSE (overlap * 100) \div Cardinality(query_tokens)

\* Vec::sort_by with |a, b| b.score.partial_cmp(&a.score): stable, descending.
sort_by_score(documents) ==
    LET insert(sorted, doc) ==
            LET keep == Cardinality({ i \in DOMAIN sorted : sorted[i].score >= doc.score })
            IN  SubSeq(sorted, 1, keep) \o <<doc>> \o SubSeq(sorted, keep + 1, Len(sorted))
        s[k \in 0..Len(documents)] ==
            IF k = 0 THEN <<>> ELSE insert(s[k - 1], documents[k])
    IN  s[Len(documents)]

\* The steps of HybridRetriever::retrieve after the search: score each point,
\* sort, truncate, and fall back to the placeholder.
hybrid_documents_Unsorted(points, query_tokens, limit) ==
    LET documents == [ i \in DOMAIN points |->
                         [ text |-> points[i].text,
                           score |-> points[i].score
                                     + lexical_boost(query_tokens, points[i].keywords),
                           source |-> points[i].source ] ]
        truncated == SubSeq(documents, 1, Min(limit, Len(documents)))
    IN  IF truncated = <<>>
        THEN <<HybridPlaceholder>>
        ELSE truncated
hybrid_documents(points, query_tokens, limit) ==
    LET documents == [ i \in DOMAIN points |->
                         [ text |-> points[i].text,
                           score |-> points[i].score
                                     + lexical_boost(query_tokens, points[i].keywords),
                           source |-> points[i].source ] ]
        sorted == sort_by_score(documents)
        truncated == SubSeq(sorted, 1, Min(limit, Len(sorted)))
    IN  IF truncated = <<>>
        THEN <<HybridPlaceholder>>
        ELSE truncated

\* One HybridRetriever::retrieve call: embedding or search may fail, else the
\* documents are returned. The search is Qdrant's, so any sequence of points
\* (dense score and payload) may come back.
HybridRetrieve ==
    /\ hybrid_results = <<>>
    /\ \E query_tokens \in { {}, {"rust"}, {"rust", "safe"} } :
       \E limit \in 0..MaxHits, n \in 0..MaxHits :
       \E points \in [1..n -> [ score : {10, 60},
                               keywords : { <<>>, <<"rust">>, <<"rust", "safe">> },
                               text : {"doc"},
                               source : { None, Some("doc://a") } ]] :
       \E error \in { None, Some("failed to embed query"), Some("qdrant search failed") } :
          hybrid_results' = << [ query_tokens |-> query_tokens, limit |-> limit,
                                 points |-> points, error |-> error,
                                 documents |-> IF error = None
                                               THEN hybrid_documents(points, query_tokens, limit)
                                               ELSE <<>> ] >>
    /\ UNCHANGED <<planVars, orchVars, facadeVars, apiVars, toolVars,
                   renders, store, ingested, stub_results, normalized>>

\* --------------------------------------------------------- stub retriever
\* StubRetriever::retrieve on the documents stored under the session id.
stub_retrieve_NoLimit(docs, limit) ==
    IF docs = <<>>
    THEN <<StubPlaceholder>>
    ELSE [ i \in 1..Len(docs) |->
             [ text |-> docs[i].text, score |-> 100,
               source |-> IF docs[i].source = None THEN Some("stub://memory")
                          ELSE docs[i].source ] ]
stub_retrieve(docs, limit) ==
    IF docs = <<>>
    THEN <<StubPlaceholder>>
    ELSE [ i \in 1..Min(limit, Len(docs)) |->
             [ text |-> docs[i].text, score |-> 100,
               source |-> IF docs[i].source = None THEN Some("stub://memory")
                          ELSE docs[i].source ] ]

\* StubRetriever::ingest: the documents are appended to the entry of the
\* session id in one step of the map.
StubIngest ==
    /\ Len(ingested) < MaxIngests
    /\ \E session_id \in SessionIds, n \in 0..2 :
       \E docs \in [1..n -> [ text : {"note one", "note two"},
                             source : { None, Some("https://a") } ]] :
          /\ store' = [store EXCEPT ![session_id] = @ \o docs]
          /\ ingested' = Append(ingested, [session_id |-> session_id, docs |-> docs])
    /\ UNCHANGED <<planVars, orchVars, facadeVars, apiVars, toolVars,
                   renders, hybrid_results, stub_results, normalized>>

\* StubRetriever::retrieve; `after` is the number of ingest calls before it.
StubRetrieve ==
    /\ stub_results = <<>>
    /\ \E session_id \in SessionIds, limit \in 0..(MaxIngests + 1) :
          stub_results' = << [ session_id |-> session_id, limit |-> limit,
                               after |-> Len(ingested),
                               documents |-> stub_retrieve(store[session_id], limit) ] >>
    /\ UNCHANGED <<planVars, orchVars, facadeVars, apiVars, toolVars,
                   renders, hybrid_results, store, ingested, normalized>>

\* ----------------------------------------------------------------- planner
TaskIds == {"t1", "t2", "t3"}

\* TaskGraph::new
TaskGraphNew ==
    [ nodes |-> [id \in TaskIds |-> None], edges |-> [id \in TaskIds |-> <<>>] ]

\* The orders in which a HashMap may hand out the ids of a set.
IterOrders(ids) ==
    { f \in [1..Cardinality(ids) -> ids] : \A i, j \in DOMAIN f : i # j => f[i] # f[j] }

\* An add_node that does not look for the dependencies.
add_node_NoDepCheck(g, id, dependencies) ==
    IF g.nodes[id] # None
    THEN [ ok |-> FALSE, error |-> "already exists", graph |-> g ]
    ELSE LET e[k \in 0..Len(dependencies)] ==
                 IF k = 0 THEN g.edges
                 ELSE [e[k - 1] EXCEPT ![dependencies[k]] = Append(@, id)]
         IN  [ ok |-> TRUE, error |-> "",
               graph |-> [ nodes |-> [g.nodes EXCEPT ![id] = Some(dependencies)],
                           edges |-> e[Len(dependencies)] ] ]

\* TaskGraph::add_node: a duplicate id and a dependency that is not a node
\* are errors; else the node's id is pushed to the edge list of each
\* dependency and the node is inserted.
add_node(g, id, dependencies) ==
    IF g.nodes[id] # None
    THEN [ ok |-> FALSE, error |-> "already exists", graph |-> g ]
    ELSE IF \E k \in 1..Len(dependencies) : g.nodes[dependencies[k]] = None
    THEN [ ok |-> FALSE, error |-> "dependency not found", graph |-> g ]
    ELSE LET e[k \in 0..Len(dependencies)] ==
                 IF k = 0 THEN g.edges
                 ELSE [e[k - 1] EXCEPT ![dependencies[k]] = Append(@, id)]
         IN  [ ok |-> TRUE, error |-> "",
               graph |-> [ nodes |-> [g.nodes EXCEPT ![id] = Some(dependencies)],
                           edges |-> e[Len(dependencies)] ] ]

\* The in-degrees validate and topological_order start from: the number of
\* dependencies of each node.
InDegrees(g) ==
    [ id \in TaskIds |-> IF g.nodes[id] = None THEN 0 ELSE Len(Unwrap(g.nodes[id])) ]

\* The loop of Kahn's algorithm in validate and topological_order: pop the
\* front of the queue, append it to the order, decrement the in-degree of each
\* of its dependents and push those that reach zero.
RECURSIVE KahnLoop(_, _, _, _)
KahnLoop(g, queue, in_degree, order) ==
    IF queue = <<>> THEN order
    ELSE LET node_id == Head(queue)
             dependents == g.edges[node_id]
             step[k \in 0..Len(dependents)] ==
                 IF k = 0 THEN [ queue |-> Tail(queue), in_degree |-> in_degree ]
                 ELSE LET before == step[k - 1]
                          dep_id == dependents[k]
                          degree == before.in_degree[dep_id] - 1
                      IN  [ queue |-> IF degree = 0 THEN Append(before.queue, dep_id)
                                      ELSE before.queue,
                            in_degree |-> [before.in_degree EXCEPT ![dep_id] = degree] ]
             after == step[Len(dependents)]
         IN  KahnLoop(g, after.queue, after.in_degree, Append(order, node_id))

\* The queues validate and topological_order may start from: the nodes without
\* dependencies, in the order the HashMap hands them out.
InitialQueues(g) ==
    IterOrders({ id \in TaskIds : g.nodes[id] # None /\ InDegrees(g)[id] = 0 })

\* TaskGraph::validate(..).is_ok(): every node was visited.
validate_graph(g, queue) ==
    Len(KahnLoop(g, queue, InDegrees(g), <<>>)) =
        Cardinality({ id \in TaskIds : g.nodes[id] # None })

\* One TaskGraph::add_node call with any node.
AddNode ==
    /\ Len(added) < MaxAdds
    /\ \E id \in TaskIds, n \in 0..MaxDeps :
       \E dependencies \in [1..n -> TaskIds] :
          LET result == add_node(graph, id, dependencies)
          IN  /\ graph' = result.graph
              /\ added' = Append(added, [ id |-> id, dependencies |-> dependencies,
                                           ok |-> result.ok, error |-> result.error ])
    /\ UNCHANGED <<orchVars, facadeVars, apiVars, toolVars, orders, rig,
                   renders, hybrid_results, store, ingested, stub_results, normalized>>

\* One TaskGraph::topological_order call: validate, and if it succeeds the
\* order of a second pass of the same loop.
TopologicalOrder ==
    /\ orders = <<>>
    /\ \E first \in InitialQueues(graph), second \in InitialQueues(graph) :
          orders' = << [ graph |-> graph,
                         valid |-> validate_graph(graph, first),
                         order |-> IF validate_graph(graph, first)
                                   THEN KahnLoop(graph, second, InDegrees(graph), <<>>)
                                   ELSE <<>> ] >>
    /\ UNCHANGED <<orchVars, facadeVars, apiVars, toolVars, graph, added, rig,
                   renders, hybrid_results, store, ingested, stub_results, normalized>>

\* ------------------------------------------------------------- orchestrator
\* OrchestratorConfig::default, and two configurations callers may build (the
\* fields are public and RigOrchestrator::new takes them as they are): a low
\* cap on the backoff, and an initial backoff above the cap.
OrchestratorConfigs ==
    { [ max_concurrent_tasks |-> 5, max_retries |-> 2,
        initial_backoff_ms |-> 1000, max_backoff_ms |-> 30000 ],
      [ max_concurrent_tasks |-> 1, max_retries |-> 2,
        initial_backoff_ms |-> 1000, max_backoff_ms |-> 1500 ],
      [ max_concurrent_tasks |-> 1, max_retries |-> 1,
        initial_backoff_ms |-> 5000, max_backoff_ms |-> 1000 ] }

\* A RigOrchestrator that has not been constructed yet (config: none). Once
\* constructed: its results map, the events handed to the EventCollector,
\* the backoff sleeps made (each with the error retried), its execute calls (`runs`, with their reports),
\* and where the execute call in progress stands: its order, the position
\* of the task being executed, and the locals of execute_task.
RigIdle ==
    [ config |-> None, results |-> [id \in TaskIds |-> None], events |-> <<>>,
      sleeps |-> <<>>, runs |-> <<>>, pc |-> "idle", order |-> <<>>, pos |-> 0,
      attempt |-> 0, backoff_ms |-> 0 ]

\* The graphs handed to execute, built by add_node calls: one node; a node
\* and a dependent; another single node.
RECURSIVE BuildGraph(_)
BuildGraph(nodes) ==
    IF nodes = <<>> THEN TaskGraphNew
    ELSE add_node(BuildGraph(SubSeq(nodes, 1, Len(nodes) - 1)),
                  nodes[Len(nodes)][1], nodes[Len(nodes)][2]).graph
ExecutedGraphs ==
    { BuildGraph(<< <<"t1", <<>>>> >>),
      BuildGraph(<< <<"t1", <<>>>>, <<"t2", <<"t1">>>> >>),
      BuildGraph(<< <<"t3", <<>>>> >>) }

\* What run_task may return: a value, or a TaskError that is retryable or
\* not. (The run_task of the source is the stub of the agent execution and
\* returns a value; its result type is what execute_task handles.)
RunTaskResults ==
    { [ok |-> TRUE, retryable |-> FALSE],
      [ok |-> FALSE, retryable |-> TRUE],
      [ok |-> FALSE, retryable |-> FALSE] }

\* RigOrchestrator::new
RigNew ==
    /\ rig.config = None
    /\ \E config \in OrchestratorConfigs : rig' = [rig EXCEPT !.config = Some(config)]
    /\ UNCHANGED <<orchVars, facadeVars, apiVars, toolVars, graph, added, orders,
                   renders, hybrid_results, store, ingested, stub_results, normalized>>

\* RigOrchestrator::execute up to the loop: topological_order; the first
\* task's execute_task starts with attempt 0 and the initial backoff.
RigExecute ==
    /\ rig.config # None /\ rig.pc = "idle"
    /\ Len(rig.runs) < MaxExecutes
    /\ \E g \in ExecutedGraphs : \E queue \in InitialQueues(g) :
          rig' = [rig EXCEPT
              !.pc = "start",
              !.order = KahnLoop(g, queue, InDegrees(g), <<>>),
              !.pos = 1, !.attempt = 0,
              !.backoff_ms = Unwrap(rig.config).initial_backoff_ms,
              !.runs = Append(@, [ graph |-> g, report |-> None ])]
    /\ UNCHANGED <<orchVars, facadeVars, apiVars, toolVars, graph, added, orders,
                   renders, hybrid_results, store, ingested, stub_results, normalized>>

\* execute_task, one pass of its loop up to run_task: a permit is acquired
\* and the Start event is emitted.
RigStart ==
    /\ rig.pc = "start" /\ rig.pos <= Len(rig.order)
    /\ Unwrap(rig.config).max_concurrent_tasks > 0
    /\ rig' = [rig EXCEPT
           !.pc = "running",
           !.events = Append(@, [ kind |-> "start", task_id |-> rig.order[rig.pos],
                                   run |-> Len(rig.runs),
                                   outcome |-> "", retryable |-> FALSE ])]
    /\ UNCHANGED <<orchVars, facadeVars, apiVars, toolVars, graph, added, orders,
                   renders, hybrid_results, store, ingested, stub_results, normalized>>

\* execute_task, the rest of the pass: run_task has returned. Ok: the Finish
\* event, the result is stored, execute goes on with the next task. A
\* retryable error with attempt < max_retries: the Finish event of the
\* attempt, the sleep of backoff_ms, the backoff is doubled up to
\* max_backoff_ms, next pass. Any other error: the Finish event with
\* retryable = false, the failed result is stored, execute goes on.
RigFinish ==
    /\ rig.pc = "running"
    /\ \E result \in RunTaskResults :
          LET task_id == rig.order[rig.pos]
              config == Unwrap(rig.config)
              finish(outcome, retryable) ==
                  [ kind |-> "finish", task_id |-> task_id, run |-> Len(rig.runs),
                    outcome |-> outcome, retryable |-> retryable ]
          IN  IF ~result.ok /\ rig.attempt < config.max_retries /\ result.retryable
              THEN rig' = [rig EXCEPT
                      !.pc = "start",
                      !.attempt = @ + 1,
                      !.events = Append(@, finish("failure", TRUE)),
                      !.sleeps = Append(@, [ task_id |-> task_id, run |-> Len(rig.runs),
                                             error_retryable |-> result.retryable,
                                             ms |-> rig.backoff_ms ]),
                      !.backoff_ms = Min(rig.backoff_ms * 2, config.max_backoff_ms)]
              ELSE LET outcome == IF result.ok THEN "success" ELSE "failure"
                   IN  rig' = [rig EXCEPT
                           !.pc = "start",
                           !.events = Append(@, finish(outcome, FALSE)),
                           !.results = [@ EXCEPT ![task_id] = Some(outcome)],
                           !.pos = @ + 1, !.attempt = 0,
                           !.backoff_ms = config.initial_backoff_ms]
    /\ UNCHANGED <<orchVars, facadeVars, apiVars, toolVars, graph, added, orders,
                   renders, hybrid_results, store, ingested, stub_results, normalized>>

\* RigOrchestrator::execute after the loop: the report is counted from the
\* results map of the orchestrator.
RigReport ==
    /\ rig.pc = "start" /\ rig.pos > Len(rig.order)
    /\ LET g == rig.runs[Len(rig.runs)].graph
           success_count == Cardinality({ id \in TaskIds : rig.results[id] = Some("success") })
           results_len == Cardinality({ id \in TaskIds : rig.results[id] # None })
       IN  rig' = [rig EXCEPT
               !.pc = "idle",
               !.runs[Len(rig.runs)].report =
                   Some([ total_tasks |-> Cardinality({ id \in TaskIds : g.nodes[id] # None }),
                          successful_tasks |-> success_count,
                          failed_tasks |-> results_len - success_count ])]
    /\ UNCHANGED <<orchVars, facadeVars, apiVars, toolVars, graph, added, orders,
                   renders, hybrid_results, store, ingested, stub_results, normalized>>

\* ------------------------------------------------------ session id prefix
\* Ids and namespaces are sequences of characters.
\* str::starts_with
starts_with(text, prefix) ==
    /\ Len(text) >= Len(prefix)
    /\ SubSeq(text, 1, Len(prefix)) = prefix

\* GuiSessionService::normalize_session_id; `minted` is the text of the UUID
\* that Uuid::new_v4 yields when the caller gave no id.
normalize_session_id(namespace, session_id, minted) ==
    LET raw == IF session_id = None THEN minted ELSE Unwrap(session_id)
    IN  IF namespace # None
        THEN IF starts_with(raw, Unwrap(namespace))
             THEN raw
             ELSE Unwrap(namespace) \o <<":", ":">> \o raw
        ELSE raw

\* The id start_session works with and returns, for a service configured with
\* or without a namespace (GuiConfig keeps a namespace trimmed and non-empty);
\* `again` is the id a second start_session gets from the returned id.
NormalizeId ==
    /\ normalized = <<>>
    /\ \E namespace \in { None, Some(<<"a">>), Some(<<"a", "b">>) } :
       \E n \in 0..MaxIdLen :
       \E text \in [1..n -> {"a", "b", ":"}] :
       \E session_id \in { None, Some(text) } :
       \E minted \in { <<"b", "a", "b">>, <<"a", "b", "b">> } :
          LET id == normalize_session_id(namespace, session_id, minted)
          IN  normalized' = << [ namespace |-> namespace, session_id |-> session_id,
                                 minted |-> minted, id |-> id,
                                 again |-> normalize_session_id(namespace, Some(id), minted) ] >>
    /\ UNCHANGED <<planVars, orchVars, facadeVars, apiVars, toolVars,
                   renders, hybrid_results, store, ingested, stub_results>>

\* ------------------------------------------------------------- single tasks
\* The contexts a single task is run on: a query, tracing on or off, and for
\* the numeric tool an optional math.request.
TaskContexts ==
    { [EmptyCtx EXCEPT !["query"] = Some("q"), !["trace.enabled"] = Some(t),
                       !["math.request"] = m] :
        t \in BOOLEAN, m \in {None} \cup { Some(r) : r \in MathRequests } }

\* ResearchTask::run on a context, the hybrid retriever answering `outcome`.
RunResearchTask ==
    /\ Len(task_runs) < MaxTaskRuns
    /\ \E ctx \in { c \in TaskContexts : c["math.request"] = None },
          outcome \in RetrieveOutcomes("hybrid") :
          task_runs' = Append(task_runs,
              [ task |-> TaskResearcher, ctx |-> ctx, ok |-> outcome.ok,
                called |-> TRUE,
                out |-> ResearchRun(ctx, outcome),
                next |-> TaskNextAction(TaskResearcher) ])
    /\ UNCHANGED <<libVars, orchVars, facadeVars, apiVars, execs, streak, finished>>

\* MathToolTask::run on a context, its executor answering `outcome` when the
\* request carries a script.
RunMathToolTask ==
    /\ Len(task_runs) < MaxTaskRuns
    /\ \E ctx \in TaskContexts, outcome \in ExecuteOutcomes :
          LET called == /\ IsSome(ctx["math.request"])
                        /\ ~IsBlank(Unwrap(ctx["math.request"]).script)
          IN  /\ ~called => outcome.ok /\ outcome.result = SandboxResultOf(FALSE, Some(0), "")
              /\ task_runs' = Append(task_runs,
                    [ task |-> TaskMathTool, ctx |-> ctx, ok |-> outcome.ok,
                      called |-> called,
                      out |-> MathToolRun(ctx, outcome),
                      next |-> TaskNextAction(TaskMathTool) ])
    /\ UNCHANGED <<libVars, orchVars, facadeVars, apiVars, execs, streak, finished>>

\* ------------------------------------------------------------------ init
InitOrch ==
    /\ storage = [id \in AllIds |-> None]
    /\ calls = <<>>

\* SessionService::new
InitFacade(limit) ==
    /\ max_concurrency = Max(limit, 1)
    /\ semaphore = Max(limit, 1)
    /\ sessions = [id \in SessionIds |-> None]
    /\ streams = [id \in SessionIds |-> 0]
    /\ channels = 0
    /\ workers = <<>>
    /\ subs = <<>>

\* API main: a limit of 0 is filtered out and replaced by the default.
DefaultSessionLimit == 5
InitApi(limit) ==
    /\ session_permits = IF limit > 0 THEN limit ELSE DefaultSessionLimit
    /\ requests = <<>>

\* No task has been run on its own; the sandbox runner is idle and the
\* process-wide streak is the static's initial 0.
InitTools ==
    /\ task_runs = <<>>
    /\ execs = <<>>
    /\ streak = 0
    /\ finished = <<>>
    /\ renders = <<>>
    /\ hybrid_results = <<>>
    /\ store = [id \in SessionIds |-> <<>>]
    /\ ingested = <<>>
    /\ stub_results = <<>>
    /\ normalized = <<>>
    /\ graph = TaskGraphNew
    /\ added = <<>>
    /\ orders = <<>>
    /\ rig = RigIdle

\* Both services are started with the same configured limit.
Init ==
    \E limit \in 0..MaxConcurrency :
        InitOrch /\ InitFacade(limit) /\ InitApi(limit) /\ InitTools

\* Direct use of the Orchestrator: the services are idle.
InitRun == InitOrch /\ InitFacade(1) /\ InitApi(1) /\ InitTools

NextRun ==
    \/ RunStart
    \/ ResumeStart
    \/ \E c \in 1..MaxCalls : ResumeLoad(c)
    \/ \E c \in 1..MaxCalls : OrchSave(c)
    \/ \E c \in 1..MaxCalls : TaskBegin(c)
    \/ \E c \in 1..MaxCalls : TaskEnd(c)
    \/ \E c \in 1..MaxCalls : OrchOutcome(c)

SpecRun == InitRun /\ [][NextRun]_vars

\* Single runs of the retriever task and of the numeric-tool task.
NextTasks ==
    \/ RunResearchTask
    \/ RunMathToolTask

SpecTasks == InitRun /\ [][NextTasks]_vars

\* run, resume, load and delete calls of one caller on one storage.
NextLife ==
    \/ LifeStart
    \/ \E c \in 1..MaxLifeCalls : OrchSave(c)
    \/ \E c \in 1..MaxLifeCalls : ResumeLoad(c)
    \/ \E c \in 1..MaxLifeCalls : TaskBegin(c)
    \/ \E c \in 1..MaxLifeCalls : TaskEnd(c)
    \/ \E c \in 1..MaxLifeCalls : OrchOutcome(c)
    \/ \E c \in 1..MaxLifeCalls : LoadSessionReport(c)
    \/ \E c \in 1..MaxLifeCalls : DeleteSession(c)

SpecLife == InitRun /\ [][NextLife]_vars

\* Renderings of traces.
SpecTrace == InitRun /\ [][RenderTrace]_vars

\* Calls of HybridRetriever::retrieve.
SpecHybrid == InitRun /\ [][HybridRetrieve]_vars

\* Calls of StubRetriever::ingest and StubRetriever::retrieve on one retriever.
NextStub == StubIngest \/ StubRetrieve
SpecStub == InitRun /\ [][NextStub]_vars

\* The session ids that start_session derives.
SpecNormalize == InitRun /\ [][NormalizeId]_vars

\* A TaskGraph built by add_node calls and sorted.
NextPlanner == AddNode \/ TopologicalOrder
SpecPlanner == InitRun /\ [][NextPlanner]_vars

\* One RigOrchestrator and the execute calls made on it, one after the other.
NextRig == RigNew \/ RigExecute \/ RigStart \/ RigFinish \/ RigReport
SpecRig == InitRun /\ [][NextRig]_vars

\* Calls of DockerSandboxRunner::execute, sequential or concurrent.
NextSandbox ==
    \/ ExecStart
    \/ \E e \in 1..MaxExecs : ExecTimeout(e)
    \/ \E e \in 1..MaxExecs : ExecFinish(e)
    \/ \E e \in 1..MaxExecs : ExecCancel(e)

SpecSandbox == InitRun /\ [][NextSandbox]_vars

\* The two services with their background workers and handlers.
Next ==
    \/ StartSession
    \/ \E w \in 1..MaxStarts : WorkerAcquire(w)
    \/ \E c \in 1..MaxStarts : OrchSave(c)
    \/ \E c \in 1..MaxStarts : TaskBegin(c)
    \/ \E c \in 1..MaxStarts : TaskEnd(c)
    \/ \E c \in 1..MaxStarts : OrchOutcome(c)
    \/ \E w \in 1..MaxStarts : WorkerRelease(w)
    \/ \E w \in 1..MaxStarts : WorkerStore(w)
    \/ \E w \in 1..MaxStarts : WorkerSend(w)
    \/ \E w \in 1..MaxStarts : WorkerRemove(w)
    \/ EventStreamCheck
    \/ \E s \in 1..MaxSubs : EventStreamSubscribe(s)
    \/ HandleQuery
    \/ \E r \in 1..MaxStarts : HandleQueryRespond(r)

Spec == Init /\ [][Next]_vars

\* The services when a worker task may also be dropped before it finishes.
NextCancel ==
    \/ Next
    \/ \E w \in 1..MaxStarts : WorkerDropped(w)

SpecCancel == Init /\ [][NextCancel]_vars

\* The services under the scheduling of the tokio runtime: a spawned worker
\* that can step eventually does, and the fair semaphore eventually serves
\* every waiter.
Fairness ==
    \A i \in 1..MaxStarts :
        /\ SF_vars(WorkerAcquire(i))
        /\ WF_vars(OrchSave(i))
        /\ WF_vars(TaskBegin(i))
        /\ WF_vars(TaskEnd(i))
        /\ WF_vars(OrchOutcome(i))
        /\ WF_vars(WorkerRelease(i))
        /\ WF_vars(WorkerStore(i))
        /\ WF_vars(WorkerSend(i))
        /\ WF_vars(WorkerRemove(i))

FairSpec == Spec /\ Fairness

\* ------------------------------------------------------------------ claims
Workers == 1..Len(workers)
Subs == 1..Len(subs)
Requests == 1..Len(requests)

\* Worker w is inside its Orchestrator call.
Inside(w) ==
    /\ workers[w].call # 0
    /\ calls[workers[w].call].pc \notin {"returned", "dropped"}

\* Worker w is executing a task of its session.
Executing(w) == workers[w].call # 0 /\ calls[workers[w].call].pc = "exec"

\* C1: a session's workflow runs serially: no two workers of the session
\* service execute tasks of the same session id at the same time.
C1_SerialPerSession ==
    \A w1 \in Workers, w2 \in Workers :
        (w1 # w2 /\ workers[w1].sid = workers[w2].sid)
            => ~(Executing(w1) /\ Executing(w2))

\* C2: at most max_concurrency workers are inside the Orchestrator at once,
\* each of them holds a permit, and the permits held and the permits
\* available add up to max_concurrency.
C2_AdmissionBound ==
    /\ max_concurrency >= 1
    /\ Cardinality({w \in Workers : Inside(w)}) <= max_concurrency
    /\ \A w \in Workers : Inside(w) => workers[w].holds
    /\ semaphore >= 0
    /\ semaphore + Cardinality({w \in Workers : workers[w].holds}) = max_concurrency

\* C2: the limit is reached while another worker waits for a permit.
C2_Witness ==
    /\ Cardinality({w \in Workers : Inside(w)}) = max_concurrency
    /\ \E w \in Workers : workers[w].pc = "acquire"

\* C3: while no permit of the session service is available a waiting worker
\* stays waiting (the start is not rejected); a handle_query that finds no
\* permit available is answered 429 without taking a permit or calling the
\* Orchestrator, and one that finds a permit takes it and runs. A waiting
\* worker can enter exactly when a permit is available.
C3_Backpressure ==
  /\ [](\A w \in Workers :
          workers[w].pc = "acquire" => (ENABLED WorkerAcquire(w) <=> semaphore > 0))
  /\
    [][ /\ semaphore = 0 =>
             \A w \in Workers : workers[w].pc = "acquire" => workers'[w].pc = "acquire"
        /\ Len(requests') = Len(requests) + 1 =>
             LET r == requests'[Len(requests')]
             IN  IF session_permits = 0
                 THEN /\ r.pc = "rejected" /\ r.status = 429
                      /\ session_permits' = 0
                      /\ calls' = calls
                 ELSE /\ r.pc = "running" /\ r.status = 0
                      /\ session_permits' = session_permits - 1
                      /\ Len(calls') = Len(calls) + 1
      ]_vars

\* C3: a request was rejected while another holds the only permit.
C3_Witness ==
    /\ session_permits = 0
    /\ \E r1 \in Requests, r2 \in Requests :
         requests[r1].pc = "running" /\ requests[r2].pc = "rejected"

\* What worker w has stored and sent agrees with its Orchestrator result.
WorkerTerminalOk(w) ==
    LET wk == workers[w]
        rec == sessions[wk.sid]
    IN  /\ wk.nsent <= 1
        /\ (wk.nsent = 1) <=> (wk.pc \in {"remove", "done"})
        /\ wk.pc \in {"send", "remove", "done"} =>
             /\ IsSome(wk.event)
             /\ Unwrap(wk.event).kind \in TerminalKinds
             /\ (Unwrap(wk.event).kind = "completed")
                    <=> (calls[wk.call].result.status = "ok")
        /\ (IsTerminal(rec) /\ Unwrap(rec).by = w) =>
             /\ IsSome(wk.event)
             /\ Unwrap(rec).event = Unwrap(wk.event)
             /\ (Unwrap(rec).state = "Completed")
                    <=> (Unwrap(wk.event).kind = "completed")
             /\ (Unwrap(rec).state = "Failed")
                    <=> (Unwrap(wk.event).kind = "error")

StreamEnded(s) ==
    \/ subs[s].pc = "replay"
    \/ subs[s].pc = "live" /\ ~ChanOpen(subs[s].chan)

\* C5: every event stream handed out delivers a terminal event before it ends.
C5_StreamDeliversTerminal ==
    \A s \in Subs :
        StreamEnded(s) =>
            \E i \in 1..Len(subs[s].items) : subs[s].items[i].kind \in TerminalKinds

C7_Cleanup ==
    /\ \A w \in Workers :
         workers[w].pc \in {"store", "send", "remove", "done"} => ~workers[w].holds
    /\ (Workers # {} /\ \A w \in Workers : workers[w].pc = "done") =>
         /\ semaphore = max_concurrency
         /\ \A id \in SessionIds : streams[id] = 0

\* C7: two workers have finished, one of them with an error.
C7_Witness ==
    /\ Len(workers) = 2
    /\ \A w \in Workers : workers[w].pc = "done"
    /\ \E w \in Workers : Unwrap(workers[w].event).kind = "error"
    /\ \E w \in Workers : Unwrap(workers[w].event).kind = "completed"

\* C8: a worker dropped before it finished is surfaced as a Failed record,
\* and its permit is released.
C8_DroppedSurfacesFailed ==
    \A w \in Workers :
        workers[w].pc = "dropped" =>
            /\ ~workers[w].holds
            /\ IsSome(sessions[workers[w].sid])
            /\ Unwrap(sessions[workers[w].sid]).state = "Failed"

\* C9: every completed run on the default graph has executed researcher,
\* analyst, math tool, fact check, critic and then one of finalize or
\* manual review.
C9_DefaultChain ==
    \A c \in 1..Len(calls) :
        (calls[c].observed /\ calls[c].pc = "returned" /\ calls[c].result.status = "ok") =>
            \/ calls[c].executed = << TaskResearcher, TaskAnalyst, TaskMathTool,
                                      TaskFactCheck, TaskCritic, TaskFinalize >>
            \/ calls[c].executed = << TaskResearcher, TaskAnalyst, TaskMathTool,
                                      TaskFactCheck, TaskCritic, TaskManualReview >>

\* C10: a completed run reports requires_manual exactly when the critic's
\* critique.confident is false, and its last task is the finalizer exactly
\* when critique.confident is true (else manual review).
C10_ManualIffNotConfident ==
    \A c \in 1..Len(calls) :
        (calls[c].observed /\ calls[c].pc = "returned" /\ calls[c].result.status = "ok") =>
            LET ctx == Unwrap(calls[c].sess).ctx
                confident == CtxGetOr(ctx, "critique.confident", FALSE)
            IN  /\ IsSome(ctx["critique.confident"])
                /\ calls[c].result.requires_manual <=> ~confident
                /\ Last(calls[c].executed) =
                       (IF confident THEN TaskFinalize ELSE TaskManualReview)
                /\ \A i \in 1..(Len(calls[c].executed) - 1) :
                       calls[c].executed[i] \notin {TaskFinalize, TaskManualReview}

\* C10: one run has ended in manual review and another at the finalizer.
C10_Witness ==
    \E c1 \in 1..Len(calls), c2 \in 1..Len(calls) :
        /\ calls[c1].pc = "returned" /\ calls[c1].result.status = "ok"
        /\ calls[c1].result.requires_manual
        /\ Last(calls[c1].executed) = TaskManualReview
        /\ calls[c2].pc = "returned" /\ calls[c2].result.status = "ok"
        /\ ~calls[c2].result.requires_manual
        /\ Last(calls[c2].executed) = TaskFinalize

\* An observed call that has returned Ok.
ReturnedOk(c) ==
    calls[c].observed /\ calls[c].pc = "returned" /\ calls[c].result.status = "ok"

\* C11: every completed outcome carries the finalizer's or the manual-review
\* summary, and over the session's life (run and later resumes) exactly one
\* of the two terminal tasks has written final.summary: never both, never
\* neither.
C11_OneTerminalWriter ==
    /\ \A id \in SessionIds :
         IsSome(storage[id]) =>
            /\ Unwrap(storage[id]).wrote \subseteq {TaskFinalize, TaskManualReview}
            /\ Cardinality(Unwrap(storage[id]).wrote) <= 1
    /\ \A c \in 1..Len(calls) :
         ReturnedOk(c) =>
            LET sess == Unwrap(calls[c].sess)
                summary == calls[c].result.summary
            IN  /\ summary.by \in {"finalizer", "manual_review"}
                /\ sess.ctx["final.summary"] = Some(summary)
                /\ sess.wrote =
                      {IF summary.by = "finalizer" THEN TaskFinalize ELSE TaskManualReview}

\* C11: a run has completed and a later resume of the same session has
\* completed too, having executed a terminal task again.
C11_Witness ==
    \E c1 \in 1..Len(calls), c2 \in 1..Len(calls) :
        /\ c1 < c2 /\ calls[c1].id = calls[c2].id
        /\ calls[c1].kind = "run" /\ calls[c2].kind = "resume"
        /\ ReturnedOk(c1) /\ ReturnedOk(c2)
        /\ calls[c2].executed # <<>>

\* Direct callers under a scheduler that lets every call that can step do so.
FairnessRun ==
    \A c \in 1..MaxCalls :
        /\ WF_vars(OrchSave(c))
        /\ WF_vars(ResumeLoad(c))
        /\ WF_vars(TaskBegin(c))
        /\ WF_vars(TaskEnd(c))
        /\ WF_vars(OrchOutcome(c))

FairRun == SpecRun /\ FairnessRun

\* No task occurs twice in the sequence.
RECURSIVE NoRepeat(_)
NoRepeat(seq) ==
    \/ seq = <<>>
    \/ /\ \A i \in 2..Len(seq) : seq[i] # Head(seq)
       /\ NoRepeat(Tail(seq))

TaskFailed(w) ==
    /\ workers[w].call # 0
    /\ calls[workers[w].call].pc = "returned"
    /\ calls[workers[w].call].result.status = "err"
    /\ calls[workers[w].call].result.error = TaskErrorMsg

C14_ErrorsContained ==
    \A i \in 1..Len(task_runs) :
        LET r == task_runs[i] IN
        /\ r.next = "ContinueAndExecute"
        /\ (r.task = TaskResearcher /\ ~r.ok) =>
              /\ Len(CtxGetOr(r.out, "research.findings", <<>>)) = 1
              /\ CtxGetOr(r.out, "research.sources", <<>>) = <<"stub://error">>
              /\ LET docs == run_retrieval([ok |-> FALSE, docs |-> <<>>], "q")
                 IN  /\ Len(docs) = 1
                     /\ docs[1].score = 0
                     /\ r.out["research.findings"] = Some(<<docs[1].text>>)
        /\ (r.task = TaskMathTool /\ r.called /\ ~r.ok) =>
              /\ r.out["math.status"] = Some("failure")
              /\ r.out["math.stderr"] = Some(SandboxError)
              /\ r.out["math.retry_recommended"] = Some(TRUE)

\* C14: the retriever task has run on a failing retriever and the
\* numeric-tool task on a failing executor.
C14_Witness ==
    \E i \in 1..Len(task_runs), j \in 1..Len(task_runs) :
        /\ task_runs[i].task = TaskResearcher /\ ~task_runs[i].ok
        /\ task_runs[j].task = TaskMathTool /\ task_runs[j].called /\ ~task_runs[j].ok
        /\ task_runs[j].out["math.status"] = Some("failure")

\* C15: when the retriever returns only its score-0 placeholder (the stub
\* retriever of a fresh run always does), the tasks after the retriever task
\* complete, the critic sets critique.confident to false and the session
\* ends in manual_review.
C15_EmptyRetrievalManual ==
    \A c \in 1..Len(calls) :
        (/\ calls[c].observed /\ calls[c].kind = "run"
         /\ calls[c].opts.retriever = "stub"
         /\ calls[c].pc = "returned" /\ calls[c].result.status = "ok"
         /\ Len(calls[c].executed) = 5 /\ calls[c].executed[1] = TaskResearcher) =>
            /\ calls[c].executed[5] = TaskManualReview
            /\ ~calls[c].result.summary.confident
            /\ calls[c].result.requires_manual

\* An execute call that has ended, by return or by being dropped.
ExecEnded(e) == execs[e].pc \in {"returned", "dropped"}

\* C16: once an execute call has returned or been dropped, on whatever path,
\* its workspace directory does not exist.
C16_WorkspaceRemoved ==
    \A e \in 1..Len(execs) :
        ExecEnded(e) => execs[e].ws \in {"none", "removed"}

\* An execution that did not end in success: an error, a timeout, or an
\* exit code other than 0.
NonSuccess(e) ==
    ~(execs[e].ret.ok /\ ~execs[e].ret.result.timed_out
                      /\ execs[e].ret.result.exit_code = Some(0))

\* Number of non-success executions at the end of the completion order.
RECURSIVE TrailingNonSuccess(_)
TrailingNonSuccess(order) ==
    IF order = <<>> \/ ~NonSuccess(Last(order)) THEN 0
    ELSE 1 + TrailingNonSuccess(SubSeq(order, 1, Len(order) - 1))

\* C17: the failure streak equals the number of consecutive non-success
\* executions since the most recent success, in the order the executions
\* ended.
C17_StreakCountsNonSuccess ==
    streak = TrailingNonSuccess(finished)

\* C18: when three executions in a row end with an outcome the numeric-tool
\* task reports as failure or timeout, the third has emitted the elevated
\* telemetry record (and so has every later one of an unbroken run).
C18_ThirdFailureElevated ==
    \A k \in 3..Len(finished) :
        (\A j \in (k - 2)..k : execs[finished[j]].reported \in {"failure", "timeout"}) =>
            execs[finished[k]].elevated

\* C19: a result is labelled timeout when timed_out, else success when the
\* exit code is 0, else failure (a missing exit code included); the runner's
\* telemetry label and the status MathToolResult::from_sandbox derives agree.
C19_SameClassification ==
    \A e \in 1..Len(execs) :
        (execs[e].pc = "returned" /\ execs[e].ret.ok) =>
            LET result == execs[e].ret.result
                class == IF result.timed_out THEN "timeout"
                         ELSE IF result.exit_code = Some(0) THEN "success"
                         ELSE "failure"
            IN  /\ execs[e].label = class
                /\ execs[e].reported = class

\* C19: results without an exit code, with a timeout despite exit code 0, and
\* with a clean exit have been classified.
C19_Witness ==
    \E e1 \in 1..Len(execs), e2 \in 1..Len(execs), e3 \in 1..Len(execs) :
        /\ execs[e1].ret.ok /\ execs[e1].label = "failure"
        /\ execs[e1].ret.result.exit_code = None
        /\ execs[e2].ret.ok /\ execs[e2].label = "timeout"
        /\ execs[e2].ret.result.exit_code = Some(0)
        /\ execs[e3].ret.ok /\ execs[e3].label = "success"

\* The requests the validation is to reject.
HasParent(path) == \E i \in 1..Len(path.comps) : path.comps[i] = ".."
BadPath(path) == path.abs \/ HasParent(path)
BadRequest(request) ==
    \/ BadPath(request.script_name)
    \/ \E i \in 1..Len(request.files) : BadPath(request.files[i])
    \/ \E i \in 1..Len(request.expected_outputs) : BadPath(request.expected_outputs[i])
    \/ request.script_contents \in {"", " "}

\* C20: a request with an absolute or ..-containing script name, file path
\* or output path, or with a blank script, is rejected with the validation
\* error; no workspace directory is created and no process is started.
C20_BadRequestRejected ==
    \A e \in 1..Len(execs) :
        BadRequest(execs[e].request) =>
            /\ execs[e].pc = "returned"
            /\ ~execs[e].ret.ok
            /\ execs[e].ret.error = InvalidRequest
            /\ execs[e].ws = "none"
            /\ ~execs[e].proc

\* C20: a traversal inside a file path and an absolute output path have been
\* rejected, and a well-formed request has got its workspace and process.
C20_Witness ==
    \E e1 \in 1..Len(execs), e2 \in 1..Len(execs), e3 \in 1..Len(execs) :
        /\ \E i \in 1..Len(execs[e1].request.files) :
              HasParent(execs[e1].request.files[i])
        /\ execs[e1].ret.error = InvalidRequest
        /\ \E i \in 1..Len(execs[e2].request.expected_outputs) :
              execs[e2].request.expected_outputs[i].abs
        /\ execs[e2].ret.error = InvalidRequest
        /\ execs[e3].pc = "running" /\ execs[e3].ws = "present" /\ execs[e3].proc

\* C21: after the numeric-tool task has run, math.retry_recommended is true
\* exactly when math.status is failure or timeout and math.degradation_note
\* is non-empty exactly then; without a request, or with a blank script, the
\* status is skipped, no retry is recommended, the executor is not called and
\* the task returns ContinueAndExecute.
C21_RetryIffFailed ==
    \A i \in 1..Len(task_runs) :
        LET r == task_runs[i] IN
        r.task = TaskMathTool =>
            /\ IsSome(r.out["math.status"])
            /\ r.out["math.retry_recommended"] =
                  Some(Unwrap(r.out["math.status"]) \in {"failure", "timeout"})
            /\ IsSome(r.out["math.degradation_note"])
            /\ (Unwrap(r.out["math.degradation_note"]) # <<>>) <=>
                  (Unwrap(r.out["math.status"]) \in {"failure", "timeout"})
            /\ (\/ r.ctx["math.request"] = None
                \/ Unwrap(r.ctx["math.request"]).script \in {"", " "}) =>
                  /\ r.out["math.status"] = Some("skipped")
                  /\ r.out["math.retry_recommended"] = Some(FALSE)
                  /\ ~r.called
                  /\ r.next = "ContinueAndExecute"

\* C21: the task has run to a timeout, to a success, and has been skipped for
\* a blank script.
C21_Witness ==
    \E i \in 1..Len(task_runs), j \in 1..Len(task_runs) :
        /\ task_runs[i].task = TaskMathTool
        /\ task_runs[i].out["math.status"] = Some("timeout")
        /\ task_runs[i].out["math.retry_recommended"] = Some(TRUE)
        /\ task_runs[j].task = TaskMathTool
        /\ IsSome(task_runs[j].ctx["math.request"])
        /\ task_runs[j].out["math.status"] = Some("skipped")

\* C22: after a completed run whose initial context carries a math.request,
\* the persisted context holds a non-empty math.status, math.alert_required,
\* math.retry_recommended, math.degradation_note,
\* analysis.math_alert_required and analysis.math_retry_recommended.
C22_MathKeysPersisted ==
    \A c \in 1..Len(calls) :
        (/\ calls[c].kind = "run" /\ IsSome(calls[c].opts.initial_context)
         /\ calls[c].pc = "returned" /\ calls[c].result.status = "ok"
         /\ IsSome(storage[calls[c].id])
         /\ \A d \in (c + 1)..Len(calls) : calls[d].id # calls[c].id) =>
            LET ctx == Unwrap(storage[calls[c].id]).ctx
            IN  /\ IsSome(ctx["math.status"]) /\ Unwrap(ctx["math.status"]) # ""
                /\ IsSome(ctx["math.alert_required"])
                /\ IsSome(ctx["math.retry_recommended"])
                /\ IsSome(ctx["math.degradation_note"])
                /\ IsSome(ctx["analysis.math_alert_required"])
                /\ IsSome(ctx["analysis.math_retry_recommended"])

\* Call d follows call c on the same session id with nothing but calls of
\* the given kinds on that id in between.
Follows(c, d, kinds) ==
    /\ c < d /\ d <= Len(calls)
    /\ calls[d].id = calls[c].id
    /\ \A e \in (c + 1)..(d - 1) : calls[e].id = calls[c].id => calls[e].kind \in kinds

\* A run that completed and returned its outcome.
RunCompleted(c) ==
    calls[c].kind = "run" /\ calls[c].pc = "returned" /\ calls[c].result.status = "ok"

C24_ResumeSameSummary ==
    \A c \in 1..Len(calls), d \in 1..Len(calls) :
        (RunCompleted(c) /\ Follows(c, d, {"resume", "load"})
            /\ calls[d].kind = "resume" /\ calls[d].pc = "returned") =>
           IF calls[d].result.status = "ok"
           THEN calls[d].result.summary = calls[c].result.summary
           ELSE calls[d].result.error \in {TaskErrorMsg, "failed to persist session"}

\* C24: a completed session has been resumed twice, the second time with
\* tracing, and both resumes returned the run's summary.
C24_Witness ==
    /\ Len(calls) = 3
    /\ RunCompleted(1)
    /\ calls[1].result.summary.by = "manual_review"
    /\ \A d \in {2, 3} :
          /\ calls[d].kind = "resume" /\ calls[d].pc = "returned"
          /\ calls[d].id = calls[1].id
          /\ calls[d].result.status = "ok"
          /\ calls[d].result.summary = calls[1].result.summary
          /\ calls[d].executed = <<TaskManualReview>>
    /\ calls[3].opts.trace_enabled

NotFound == "session not found"

\* C25: resume, load and delete of a session id that is not in the storage
\* return the not-found error in their next step, having run no task and
\* with the storage unchanged; a delete of an existing id that succeeds
\* removes the session, and a load of that id right after it fails with
\* not found.
C25_MissingSessionFails ==
    /\ [](\A c \in 1..Len(calls) :
            /\ (calls[c].pc = "returned" /\ calls[c].result.error = NotFound
                  /\ calls[c].kind \in {"resume", "load", "delete"}) =>
                  calls[c].executed = <<>>
            /\ (/\ calls[c].kind = "delete" /\ calls[c].pc = "returned"
                /\ calls[c].result.status = "ok"
                /\ c < Len(calls) /\ calls[c + 1].id = calls[c].id
                /\ calls[c + 1].kind = "load" /\ calls[c + 1].pc = "returned") =>
                  calls[c + 1].result.error = NotFound)
    /\ [][ \A c \in 1..Len(calls) :
             /\ (calls[c].pc \in {"resume", "load", "delete"}
                   /\ storage[calls[c].id] = None /\ calls'[c] # calls[c]) =>
                   /\ calls'[c].pc = "returned"
                   /\ calls'[c].result.status = "err"
                   /\ calls'[c].result.error = NotFound
                   /\ storage' = storage
             /\ (calls[c].pc = "delete" /\ calls'[c].pc = "returned"
                   /\ calls'[c].result.status = "ok") =>
                   /\ storage[calls[c].id] # None
                   /\ storage'[calls[c].id] = None
         ]_vars

\* C25: a session has been run, deleted and then loaded in vain.
C25_Witness ==
    /\ Len(calls) = 3
    /\ RunCompleted(1)
    /\ calls[2].kind = "delete" /\ calls[2].id = calls[1].id
    /\ calls[2].result.status = "ok"
    /\ calls[3].kind = "load" /\ calls[3].id = calls[1].id
    /\ calls[3].pc = "returned" /\ calls[3].result.error = NotFound
    /\ storage[calls[1].id] = None

\* C25: a resume and a delete of an id that was never run have failed.
C25_WitnessMissing ==
    /\ Len(calls) = 2
    /\ calls[1].kind = "resume" /\ calls[1].result.error = NotFound
    /\ calls[2].kind = "delete" /\ calls[2].pc = "returned"
    /\ calls[2].result.error = NotFound
    /\ \A id \in AllIds : storage[id] = None

TraceOff(ctx) == ~CtxGetOr(ctx, "trace.enabled", FALSE)

\* C26: while trace.enabled is absent or false no task changes
\* trace.collector (a session without tracing has none), and the outcome of
\* such a session has no trace events.
C26_NoTraceWhenDisabled ==
    /\ [](/\ \A id \in AllIds :
               (storage[id] # None /\ TraceOff(Unwrap(storage[id]).ctx)) =>
                   Unwrap(storage[id]).ctx["trace.collector"] = None
          /\ \A c \in 1..Len(calls) :
               (/\ calls[c].pc = "returned" /\ calls[c].result.status = "ok"
                /\ calls[c].sess # None /\ TraceOff(Unwrap(calls[c].sess).ctx)) =>
                   calls[c].result.trace_events = <<>>)
    /\ [][ \A c \in 1..Len(calls) :
             (/\ calls[c].pc = "exec" /\ calls'[c].pc # "exec"
              /\ TraceOff(Unwrap(calls[c].sess).ctx)
              /\ storage'[calls[c].id] # None) =>
                 Unwrap(storage'[calls[c].id]).ctx["trace.collector"] =
                     Unwrap(calls[c].sess).ctx["trace.collector"]
         ]_vars

\* C26: one run without tracing has completed with no trace events, and one
\* with tracing with five.
C26_Witness ==
    \E c \in 1..Len(calls), d \in 1..Len(calls) :
        /\ calls[c].pc = "returned" /\ calls[c].result.status = "ok"
        /\ ~calls[c].opts.trace_enabled
        /\ Len(calls[c].executed) = 5
        /\ calls[c].result.trace_events = <<>>
        /\ calls[d].pc = "returned" /\ calls[d].result.status = "ok"
        /\ Len(calls[d].result.trace_events) = 5

\* The lines of a text: its pieces between the line breaks.
Lines(text) ==
    LET l[k \in 0..Len(text)] ==
            IF k = 0 THEN << <<>> >>
            ELSE LET before == l[k - 1]
                 IN  IF text[k] = NL THEN Append(before, <<>>)
                     ELSE [before EXCEPT ![Len(before)] = Append(@, text[k])]
    IN  l[Len(text)]
\* The lines that open the node of step k, and the lines that are a link.
NodeLines(text, opener, k) ==
    { i \in DOMAIN Lines(text) :
        Lines(text)[i] # <<>> /\ Lines(text)[i][1] = Piece(opener, k, 0) }
LinkLines(text, link) ==
    SelectSeq(Lines(text), LAMBDA line : Len(line) = 1 /\ line[1].t = link)
StepsNumbered(r) ==
    /\ Len(r.steps) = Len(r.events)
    /\ \A i \in 1..Len(r.events) :
          /\ r.steps[i].index = i
          /\ r.steps[i].task_id = r.events[i].task_id
          /\ r.steps[i].message = r.events[i].message
MermaidShape(r) ==
    Len(r.events) > 0 =>
        /\ \A k \in 1..Len(r.events) :
              Cardinality(NodeLines(r.mermaid, "  step_[\"", k)) = 1
        /\ LinkLines(r.mermaid, "  step_ --> step_") =
              [k \in 1..(Len(r.events) - 1) |-> <<MermaidLink(k, k + 1)>>]
GraphvizShape(r) ==
    Len(r.events) > 0 =>
        /\ \A k \in 1..Len(r.events) :
              Cardinality(NodeLines(r.graphviz, "  step_ [label=\"", k)) = 1
        /\ LinkLines(r.graphviz, "  step_ -> step_;") =
              [k \in 1..(Len(r.events) - 1) |-> <<GraphvizLink(k, k + 1)>>]
EmptyPlaceholders(r) ==
    Len(r.events) = 0 =>
        /\ r.markdown = <<Text("No trace events recorded.")>>
        /\ r.mermaid = <<Text("flowchart TD"), NL, Text("  %% no trace events captured")>>
        /\ r.graphviz = <<Text("digraph Trace {"), NL,
                          Text("  // no trace events captured"), NL, Text("}")>>

\* C27: for every sequence of N events the trace summary numbers the steps
\* 1..N in insertion order, the Mermaid and the Graphviz rendering each hold
\* one node line per step and exactly the N-1 links from step K to step K+1,
\* and for N = 0 each renderer returns its fixed placeholder.
C27_TraceRendering ==
    \A i \in 1..Len(renders) :
        /\ StepsNumbered(renders[i])
        /\ MermaidShape(renders[i])
        /\ GraphvizShape(renders[i])
        /\ EmptyPlaceholders(renders[i])

\* The final score of a point: dense score plus lexical boost.
FinalScore(r, i) ==
    r.points[i].score
    + (IF r.query_tokens = {} \/ r.points[i].keywords = <<>> THEN 0
       ELSE (Cardinality({ k \in DOMAIN r.points[i].keywords :
                             r.points[i].keywords[k] \in r.query_tokens }) * 100)
            \div Cardinality(r.query_tokens))

\* C28: HybridRetriever::retrieve never returns an empty list: when hits
\* remain, the list holds the hits with the highest final scores (dense score
\* plus lexical boost) in descending order, at most `limit` of them; when
\* none remains it is exactly one placeholder with score 0 and no source.
C28_HybridNeverEmpty ==
    \A c \in 1..Len(hybrid_results) :
        LET r == hybrid_results[c]
            docs == r.documents
        IN  r.error = None =>
              /\ docs # <<>>
              /\ IF r.limit > 0 /\ Len(r.points) > 0
                 THEN /\ Len(docs) = Min(r.limit, Len(r.points))
                      /\ \A i, j \in 1..Len(docs) : i < j => docs[i].score >= docs[j].score
                      /\ \E f \in [1..Len(docs) -> 1..Len(r.points)] :
                            /\ \A i, j \in 1..Len(docs) : i # j => f[i] # f[j]
                            /\ \A i \in 1..Len(docs) :
                                  /\ docs[i].score = FinalScore(r, f[i])
                                  /\ docs[i].text = r.points[f[i]].text
                                  /\ docs[i].source = r.points[f[i]].source
                            /\ \A h \in 1..Len(r.points) :
                                  (\A i \in 1..Len(docs) : f[i] # h) =>
                                      FinalScore(r, h) <= docs[Len(docs)].score
                 ELSE /\ Len(docs) = 1
                      /\ docs[1].score = 0
                      /\ docs[1].source = None

\* C28: a search came back with two hits, the second with the lower dense
\* score but the higher final score thanks to its lexical boost, and retrieve
\* with limit 1 returned the second alone.
C28_Witness ==
    \E c \in 1..Len(hybrid_results) :
        LET r == hybrid_results[c]
        IN  /\ r.error = None /\ Len(r.points) = 2 /\ r.limit = 1
            /\ r.points[1].score > r.points[2].score
            /\ FinalScore(r, 2) > FinalScore(r, 1)
            /\ Len(r.documents) = 1
            /\ r.documents[1].score = FinalScore(r, 2)

\* The documents ingested under a session id by the first `after` ingest
\* calls, in ingestion order.
IngestedUnder(session_id, after) ==
    LET d[k \in 0..after] ==
            IF k = 0 THEN <<>>
            ELSE IF ingested[k].session_id = session_id THEN d[k - 1] \o ingested[k].docs
            ELSE d[k - 1]
    IN  d[after]

\* C29: StubRetriever::retrieve(session, query, limit) returns the first
\* min(limit, n) of the n documents ingested under that session id, in
\* ingestion order and each with score 1.0, or the single placeholder when
\* none was ingested; every returned document was ingested under that
\* session id.
C29_StubRetrieve ==
    \A c \in 1..Len(stub_results) :
        LET r == stub_results[c]
            own == IngestedUnder(r.session_id, r.after)
        IN  IF own = <<>>
            THEN r.documents = <<StubPlaceholder>>
            ELSE /\ Len(r.documents) = (IF r.limit < Len(own) THEN r.limit ELSE Len(own))
                 /\ \A i \in 1..Len(r.documents) :
                       /\ r.documents[i].text = own[i].text
                       /\ r.documents[i].score = 100
                       /\ \E k \in 1..r.after :
                             /\ ingested[k].session_id = r.session_id
                             /\ \E j \in 1..Len(ingested[k].docs) :
                                   ingested[k].docs[j].text = r.documents[i].text

\* C29: documents were ingested under both session ids, two of them under
\* the session asked for, and retrieve with limit 1 returned the first of
\* the two, which differs from the other session's document.
C29_Witness ==
    \E c \in 1..Len(stub_results) :
        LET r == stub_results[c]
        IN  /\ r.after = 2 /\ r.limit = 1
            /\ ingested[1].session_id = r.session_id
            /\ ingested[2].session_id # r.session_id
            /\ Len(ingested[1].docs) = 2 /\ Len(ingested[2].docs) = 1
            /\ ingested[1].docs[1].text # ingested[1].docs[2].text
            /\ ingested[2].docs[1].text # ingested[1].docs[1].text
            /\ r.documents = << [ text |-> ingested[1].docs[1].text, score |-> 100,
                                  source |-> Some("stub://memory") ] >>

\* The text begins with "{namespace}::".
HasNamespacePrefix(text, namespace) ==
    LET prefix == namespace \o <<":", ":">>
    IN  Len(text) >= Len(prefix) /\ SubSeq(text, 1, Len(prefix)) = prefix

\* C30: with a namespace configured every id returned by start_session begins
\* with "{namespace}::"; a caller's id is prefixed unless it already begins
\* with "{namespace}::"; normalising a returned id again changes nothing; with
\* no namespace the caller's id is returned unchanged.
C30_NamespacePrefix ==
    \A c \in 1..Len(normalized) :
        LET r == normalized[c]
        IN  /\ r.again = r.id
            /\ (r.namespace = None /\ r.session_id # None) => r.id = Unwrap(r.session_id)
            /\ r.namespace # None =>
                  /\ HasNamespacePrefix(r.id, Unwrap(r.namespace))
                  /\ r.session_id # None =>
                        r.id = (IF HasNamespacePrefix(Unwrap(r.session_id), Unwrap(r.namespace))
                                THEN Unwrap(r.session_id)
                                ELSE Unwrap(r.namespace) \o <<":", ":">> \o Unwrap(r.session_id))

\* The trace of a stored session (no collector: no events).
TraceOf(session) == CtxGetOr(session.ctx, "trace.collector", <<>>)

\* C31: with tracing enabled, each executed task appends exactly one event
\* to the session's trace, earlier events are never changed or removed (a
\* run that replaces the session apart), and the task ids of the trace are
\* the tasks in the order they executed.
C31_TraceAppendOrder ==
    /\ [](\A c \in 1..Len(calls) :
             (/\ c = Len(calls) /\ calls[c].kind = "run" /\ calls[c].opts.trace_enabled
              /\ calls[c].pc \in {"ready", "exec", "outcome"}
              /\ storage[calls[c].id] # None) =>
                 TraceOf(Unwrap(storage[calls[c].id])) = calls[c].executed)
    /\ [][ /\ \A c \in 1..Len(calls) :
               (/\ calls[c].pc = "exec" /\ calls'[c].pc \in {"ready", "outcome"}
                /\ ~TraceOff(Unwrap(calls[c].sess).ctx)) =>
                   TraceOf(Unwrap(storage'[calls[c].id])) =
                       Append(TraceOf(Unwrap(calls[c].sess)),
                              Unwrap(calls[c].sess).current_task_id)
           /\ \A id \in AllIds :
               (/\ storage[id] # None /\ storage'[id] # None
                /\ ~\E c \in 1..Len(calls) : calls[c].id = id /\ calls[c].pc = "save") =>
                   LET old == TraceOf(Unwrap(storage[id]))
                       new == TraceOf(Unwrap(storage'[id]))
                   IN  /\ Len(old) <= Len(new) /\ Len(new) <= Len(old) + 1
                       /\ SubSeq(new, 1, Len(old)) = old
         ]_vars

\* C31: a traced run has returned, and its trace lists its five tasks in the
\* order they ran, the manual review among them.
C31_Witness ==
    \E c \in 1..Len(calls) :
        /\ calls[c].pc = "returned" /\ calls[c].result.status = "ok"
        /\ calls[c].kind = "run" /\ calls[c].opts.trace_enabled
        /\ Len(calls[c].executed) = 5
        /\ calls[c].executed[5] = TaskManualReview
        /\ calls[c].result.trace_events = calls[c].executed

\* C32: when the wait for the container exceeds the timeout the runner kills
\* the process and waits for its exit before it collects outputs and
\* returns: a result with timed_out = true is returned only by a call that
\* issued the kill, the step that returns it increments the failure streak,
\* and the workspace of the call has been removed.
C32_TimeoutKillsAndCleans ==
    /\ [](\A e \in 1..Len(execs) :
             (execs[e].pc = "returned" /\ execs[e].ret.ok
                                       /\ execs[e].ret.result.timed_out) =>
                 /\ execs[e].kill # "none"
                 /\ execs[e].ws = "removed")
    /\ [][ \A e \in 1..Len(execs) :
             (/\ execs[e].pc = "killed" /\ execs'[e].pc = "returned"
              /\ execs'[e].ret.ok) =>
                 /\ execs'[e].ret.result.timed_out
                 /\ streak' = streak + 1
         ]_vars

\* C33: every session snapshot that run or resume persists has a
\* current_task_id that is a node of the graph, and the step of run that
\* first persists the new session persists it positioned at the start task.
C33_PersistedTaskInGraph ==
    /\ [](\A id \in AllIds :
             storage[id] # None => Unwrap(storage[id]).current_task_id \in GraphNodes)
    /\ [][ \A c \in 1..Len(calls) :
             (calls[c].pc = "save" /\ calls'[c].pc = "ready") =>
                 /\ storage'[calls[c].id] # None
                 /\ Unwrap(storage'[calls[c].id]).current_task_id = TaskResearcher
         ]_vars

\* C33: a resumed call has run at least two tasks and returned, and the
\* session it persisted last is positioned at the finalizer.
C33_Witness ==
    \E c \in 1..Len(calls) :
        /\ calls[c].kind = "resume" /\ calls[c].pc = "returned"
        /\ calls[c].result.status = "ok"
        /\ Len(calls[c].executed) >= 2
        /\ storage[calls[c].id] # None
        /\ Unwrap(storage[calls[c].id]).current_task_id = TaskFinalize

\* C34: when the Orchestrator call has returned, the worker stores the
\* terminal record before it broadcasts the terminal event, so the record of
\* the session is terminal when the event is sent, and a subscriber that has
\* received a terminal event reads a terminal status for that session from
\* then on.
C34_TerminalStatusAfterEvent ==
    /\ [](\A i \in 1..Len(subs) :
             (\E k \in 1..Len(subs[i].items) : subs[i].items[k].kind \in TerminalKinds) =>
                 IsTerminal(sessions[subs[i].sid]))
    /\ [][ \A w \in 1..Len(workers) :
             (workers[w].pc = "send" /\ workers'[w].pc = "remove") =>
                 IsTerminal(sessions[workers[w].sid])
         ]_vars

\* C35: once a session's record is Completed or Failed it never returns to
\* Running and its stored outcome or error never changes, whatever
\* start_session calls follow.
C35_TerminalRecordStable ==
    [][ \A id \in SessionIds :
          IsTerminal(sessions[id]) =>
              /\ IsTerminal(sessions'[id])
              /\ Unwrap(sessions'[id]).state = Unwrap(sessions[id]).state
              /\ Unwrap(sessions'[id]).outcome = Unwrap(sessions[id]).outcome
              /\ Unwrap(sessions'[id]).error = Unwrap(sessions[id]).error
      ]_vars

\* C36: a sandbox call that ends with an error before it has a result
\* (validation, workspace creation, file write, spawn, wait or pipe drain)
\* leaves the failure streak unchanged; the streak changes only in a step in
\* which a call returns a SandboxResult.
C36_ErrorsLeaveStreak ==
    [][ /\ \A e \in 1..Len(execs') :
             (/\ execs'[e].pc = "returned" /\ ~execs'[e].ret.ok
              /\ (e > Len(execs) \/ execs[e].pc # "returned")) =>
                 streak' = streak
        /\ streak' # streak =>
             \E e \in 1..Len(execs) :
                 /\ execs[e].pc # "returned"
                 /\ execs'[e].pc = "returned" /\ execs'[e].ret.ok
      ]_vars

\* C36: after a call that returned a failed result, a second call ended with
\* a wait or pipe error and a third was rejected by the validation; the
\* streak is still 1.
C36_Witness ==
    /\ Len(execs) = 3
    /\ finished = <<1, 2>>
    /\ execs[1].ret.ok /\ execs[1].ret.result.exit_code = Some(1)
    /\ execs[2].pc = "returned" /\ ~execs[2].ret.ok /\ execs[2].ret.error \in WaitErrors
    /\ execs[3].pc = "returned" /\ execs[3].ret.error = InvalidRequest
    /\ streak = 1

\* The context keys run seeds, by the options of the call.
SeededKeys(opts) ==
    {"query", "session_id"}
    \cup (IF opts.namespace # None THEN {"session.namespace"} ELSE {})
    \cup (IF opts.initial_context # None THEN {"math.request"} ELSE {})
    \cup (IF opts.trace_enabled THEN {"trace.enabled", "trace.collector"} ELSE {})

\* C37: the step of run that persists its session, on an id that is in the
\* storage or not, leaves there a session positioned at the start task whose
\* context holds the newly seeded keys and nothing else (an empty trace when
\* tracing is on); and a run that returns its outcome has executed the graph
\* from the start task to a terminal task.
C37_RunReplacesSession ==
    /\ [](\A c \in 1..Len(calls) :
             (/\ calls[c].kind = "run" /\ calls[c].observed
              /\ calls[c].pc = "returned" /\ calls[c].result.status = "ok") =>
                 /\ Len(calls[c].executed) = 5
                 /\ SubSeq(calls[c].executed, 1, 4) =
                        <<TaskResearcher, TaskAnalyst, TaskFactCheck, TaskCritic>>
                 /\ calls[c].executed[5] \in {TaskFinalize, TaskManualReview})
    /\ [][ \A c \in 1..Len(calls) :
             (calls[c].pc = "save" /\ calls'[c].pc = "ready") =>
                 LET new == Unwrap(storage'[calls[c].id])
                 IN  /\ new.current_task_id = TaskResearcher
                     /\ \A k \in CtxKeys : new.ctx[k] # None <=> k \in SeededKeys(calls[c].opts)
                     /\ new.ctx["session_id"] = Some(calls[c].id)
                     /\ calls[c].opts.trace_enabled => new.ctx["trace.collector"] = Some(<<>>)
                     /\ calls[c].opts.initial_context # None =>
                            new.ctx["math.request"] = calls[c].opts.initial_context
         ]_vars

\* C37: a first run ended in manual review with a trace; a second run on
\* the same id, without tracing, has persisted its session, and neither the
\* manual flag nor the summary nor the trace of the first is in the storage.
C37_Witness ==
    /\ Len(calls) = 2
    /\ calls[1].kind = "run" /\ calls[1].result.status = "ok"
    /\ calls[1].result.requires_manual /\ Len(calls[1].result.trace_events) = 5
    /\ calls[2].kind = "run" /\ calls[2].id = calls[1].id /\ calls[2].pc = "ready"
    /\ calls[2].executed = <<>>
    /\ Unwrap(storage[calls[2].id]).ctx["final.requires_manual"] = None
    /\ Unwrap(storage[calls[2].id]).ctx["final.summary"] = None
    /\ Unwrap(storage[calls[2].id]).ctx["trace.collector"] = None

\* The ids of the nodes of a graph.
NodesOf(g) == { id \in TaskIds : g.nodes[id] # None }
\* The add_node calls that were accepted before call k.
AddedBefore(k) == { added[j].id : j \in { i \in 1..(k - 1) : added[i].ok } }

\* C38: after add_node calls the graph holds exactly the accepted nodes, each
\* with dependencies that were accepted earlier (so it is acyclic); validate
\* succeeds and topological_order lists every node once and after all its
\* dependencies; an add_node is rejected exactly for a duplicate id or a
\* missing dependency and then leaves the graph unchanged.
C38_GraphStaysAcyclic ==
    /\ [](/\ NodesOf(graph) = AddedBefore(Len(added) + 1)
          /\ \A k \in 1..Len(added) :
                /\ added[k].ok <=>
                      /\ added[k].id \notin AddedBefore(k)
                      /\ \A d \in 1..Len(added[k].dependencies) :
                            added[k].dependencies[d] \in AddedBefore(k)
                /\ added[k].ok => graph.nodes[added[k].id] = Some(added[k].dependencies)
          /\ \A o \in 1..Len(orders) :
                LET g == orders[o].graph
                    order == orders[o].order
                IN  /\ orders[o].valid
                    /\ Len(order) = Cardinality(NodesOf(g))
                    /\ \A id \in NodesOf(g) :
                          \E p \in 1..Len(order) :
                            /\ order[p] = id
                            /\ \A d \in 1..Len(Unwrap(g.nodes[id])) :
                                  \E q \in 1..(p - 1) : order[q] = Unwrap(g.nodes[id])[d])
    /\ [][ (Len(added') > Len(added) /\ ~added'[Len(added')].ok) => graph' = graph ]_vars

\* C38: three nodes were added, the third depending twice on the first and
\* not on the second; the order taken lists the three, the third last.
C38_Witness ==
    /\ Len(added) = 3 /\ \A k \in 1..3 : added[k].ok
    /\ added[3].dependencies = <<added[1].id, added[1].id>>
    /\ added[2].dependencies = <<>>
    /\ Len(orders) = 1 /\ Len(orders[1].order) = 3
    /\ orders[1].order[3] = added[3].id

\* The Finish event that ends a task: a success, or a failure that is not
\* retried.
IsFinalFinish(e) == e.kind = "finish" /\ ~e.retryable
\* A task's Start comes after the final Finish of each of its dependencies in
\* the same execute call.
RigStartsAfterDependencies ==
    \A i \in 1..Len(rig.events) :
        rig.events[i].kind = "start" =>
            LET deps == Unwrap(rig.runs[rig.events[i].run].graph.nodes[rig.events[i].task_id])
            IN  \A d \in 1..Len(deps) :
                    \E j \in 1..(i - 1) :
                        /\ IsFinalFinish(rig.events[j])
                        /\ rig.events[j].task_id = deps[d]
                        /\ rig.events[j].run = rig.events[i].run
\* Start and Finish events alternate, a Finish being of the task and execute
\* call of the Start before it; only the attempt in progress has no Finish.
RigStartFinishPaired ==
    /\ \A i \in 1..Len(rig.events) :
          IF i % 2 = 1 THEN rig.events[i].kind = "start"
          ELSE /\ rig.events[i].kind = "finish"
               /\ rig.events[i].task_id = rig.events[i - 1].task_id
               /\ rig.events[i].run = rig.events[i - 1].run
    /\ (Len(rig.events) % 2 = 1) <=> (rig.pc = "running")
\* The counts of every report add up to the size of the graph executed.
RigReportsAddUp ==
    \A r \in 1..Len(rig.runs) :
        rig.runs[r].report # None =>
            LET report == Unwrap(rig.runs[r].report)
            IN  report.successful_tasks + report.failed_tasks = report.total_tasks

\* C39: execute runs the tasks in a topological order: a Start is emitted
\* only after a final Finish of each dependency, every Start is followed by
\* exactly one Finish of that attempt, and in the report successful_tasks +
\* failed_tasks = total_tasks.
C39_ExecuteTopologicalReport ==
    /\ RigStartsAfterDependencies
    /\ RigStartFinishPaired
    /\ RigReportsAddUp

\* The configuration of the orchestrator, and the number of Start events of a
\* task in an execute call.
RigConfig == Unwrap(rig.config)
RigAttempts(task_id, run) ==
    Cardinality({ i \in 1..Len(rig.events) :
                    /\ rig.events[i].kind = "start"
                    /\ rig.events[i].task_id = task_id /\ rig.events[i].run = run })
\* A task is attempted at most max_retries + 1 times in an execute call.
RigAttemptsBounded ==
    \A id \in TaskIds : \A r \in 1..Len(rig.runs) :
        RigAttempts(id, r) <= RigConfig.max_retries + 1
\* Only retryable errors are retried.
RigRetriesRetryable ==
    \A k \in 1..Len(rig.sleeps) : rig.sleeps[k].error_retryable
\* The first backoff of a task is the initial one and each later one the double
\* of the one before, up to max_backoff_ms.
RigBackoffDoubles ==
    \A k \in 1..Len(rig.sleeps) :
        IF k > 1 /\ rig.sleeps[k - 1].task_id = rig.sleeps[k].task_id
                 /\ rig.sleeps[k - 1].run = rig.sleeps[k].run
        THEN rig.sleeps[k].ms = Min(2 * rig.sleeps[k - 1].ms, RigConfig.max_backoff_ms)
        ELSE rig.sleeps[k].ms = RigConfig.initial_backoff_ms
\* No backoff is longer than max_backoff_ms.
RigBackoffCapped ==
    \A k \in 1..Len(rig.sleeps) : rig.sleeps[k].ms <= RigConfig.max_backoff_ms
\* A step that emits the final Finish of a failed task stores a failed result
\* and leaves execute at the next task.
RigFailureRecorded ==
    (/\ Len(rig'.events) > Len(rig.events)
     /\ IsFinalFinish(rig'.events[Len(rig'.events)])
     /\ rig'.events[Len(rig'.events)].outcome = "failure")
        => /\ rig'.results[rig'.events[Len(rig'.events)].task_id] = Some("failure")
           /\ rig'.pc = "start" /\ rig'.pos = rig.pos + 1
           /\ rig'.runs = rig.runs

====
